---- MODULE Spec2Model ----
(***************************************************************************)
(* Model of the InfluxDB backup orchestrator: main() of main.py, run() of   *)
(* BackupOrchestrator (src/classes/backup_orchestrator.py) and the worker   *)
(* processes it spawns (_run_backup_process driving BackupProcessor.run).   *)
(* main.py carries its own copy of the class, with the same validation,     *)
(* spawn, join and cleanup code.                                            *)
(*                                                                         *)
(* The orchestrator is one sequential process (pc, i); every worker is a    *)
(* process of its own (wpc); they communicate through results_queue and     *)
(* shutdown_event, and the orchestrator acts on a worker with terminate()   *)
(* and kill().  Blocking calls with a timeout (Queue.get, Process.join)     *)
(* are two actions each: the call returns, or the timeout expires.          *)
(*                                                                         *)
(* signal_handler replaces the default SIGINT/SIGTERM handlers for the      *)
(* whole life of the orchestrator process and only sets shutdown_event, so  *)
(* no KeyboardInterrupt is ever raised in run(): its two `except            *)
(* KeyboardInterrupt` blocks (lines 513-540, 548-563) have no transition.   *)
(*                                                                         *)
(* What runs inside a worker process has specifications of its own, each    *)
(* over its own variables with the rest of the module at rest:              *)
(*   ChunkSpec  generate_time_ranges (utils.py);                            *)
(*   RetrySpec  retry_with_backoff around the adapter's requests;           *)
(*   FieldSpec  BackupProcessor._backup_single_field, the time window;      *)
(*   PoolSpec   _backup_database / _backup_measurement, the field workers;  *)
(*   SchedSpec  BackupScheduler (scheduler.py);                             *)
(*   APSpec     APBackupScheduler (classes/apscheduler_backup.py);          *)
(*   RunSpec    BackupProcessor.run_backup, the steps before the data;      *)
(*   IncSpec    _backup_database, the start times in incremental mode;      *)
(*   WriteSpec  InfluxDBClient.write_data, the batches of one call.         *)
(***************************************************************************)
EXTENDS Integers, Sequences, FiniteSets, TLC

\* number of descriptor slots in the configuration directory
NJobs == 2

Jobs == 1..NJobs

\* What a slot of the directory holds, the files numbered in sorted order:
\*   absent   no file (the slots after the last file);
\*   invalid  a file ConfigManager rejects;
\*   short    backup_mode range, or incremental without a schedule;
\*   cron     incremental with a cron schedule;
\*   badcron  incremental with a schedule CronTrigger.from_crontab rejects
\*            (the schema only asks for a string);
\*   blank    incremental with a schedule of white space only.
Descriptors == {"absent", "invalid", "short", "cron", "badcron", "blank"}

VARIABLES
    cfg,            \* the configuration directory: slot -> descriptor
    validate_only,  \* args.validate_only
    pc,             \* position of the orchestrator process
    i,              \* index of the loop the orchestrator is in
    processes,      \* self.processes: the jobs whose worker was started
    results_queue,  \* self.results_queue
    results,        \* results collected by _collect_results
    shutdown_event, \* self.shutdown_event
    exit_code,      \* value returned by main(); -1 while running
    wpc,            \* position of each worker process
    terminated,     \* the workers terminate() was called on
    killed          \* the workers kill() was called on

\* the orchestrator and its worker processes
orchvars == <<cfg, validate_only, pc, i, processes, results_queue, results,
              shutdown_event, exit_code, wpc, terminated, killed>>

\* Inside one worker process: the job's own machinery, each part modelled by
\* a specification of its own (below, after the orchestrator's).  The
\* orchestrator's specification keeps these variables at rest.
VARIABLES
    gtr             \* one call of generate_time_ranges: arguments and result

chunkvars == <<gtr>>

\* one call of InfluxDBClient._execute_query or _execute_write, inside
\* retry_with_backoff
VARIABLES
    options,        \* the descriptor's options: retries, retry_delay
    method,         \* the decorated method called
    attempt,        \* the wrapper's loop variable
    rpc,            \* position of the wrapper
    requests,       \* what happened to each HTTP request sent, in order
    sleeps          \* the argument of each time.sleep made, in order

retryvars == <<options, method, attempt, rpc, requests, sleeps>>

\* one call of BackupProcessor._backup_single_field
VARIABLES
    utcoffset,      \* offset of the process's local time from UTC, in ticks
    dest_last,      \* the field's last timestamp in the destination, in
                    \* nanoseconds since the epoch: <<ns>>, or <<>> if none
    field,          \* backup mode, start_time, end_time, chunk_days
    fpc,            \* position in the method
    time_ranges,    \* the chunks of the field
    chunk,          \* index of the chunk the loop is at
    queried,        \* the time bounds of each query_data made, as sent
    fresult,        \* the result returned
    fstats          \* the "reason" of a skipped result; whether a
                    \* query_data of the field returned rows, whether
                    \* write_data was called, whether a query_data failed

fieldvars == <<utcoffset, dest_last, field, fpc, time_ranges, chunk, queried,
               fresult, fstats>>

\* BackupProcessor._backup_database and _backup_measurement: the field
\* workers of the measurements of one run
VARIABLES
    max_workers,    \* the size of the pool
    ppc,            \* position of the thread that runs the backup
    measurement,    \* the measurement the loop of _backup_database is at
    fstate,         \* state of the future of each field of each measurement
    fchunk,         \* the chunks each field's worker has written
    field_results,  \* the fields whose result as_completed has handed over
    errors          \* self.stats["errors"]: the entries naming each field

poolvars == <<max_workers, ppc, measurement, fstate, fchunk, field_results,
              errors>>

\* BackupScheduler (scheduler.py): the object's fields and the threads its
\* schedule_backup calls have started
VARIABLES
    is_running,     \* self.is_running
    should_stop,    \* self.should_stop
    current_thread, \* self.current_thread: the thread started last, 0 if none
    next_due,       \* now >= self.next_run_time
    tpc,            \* position of each thread running _scheduler_loop
    overrun,        \* threads with a cron time gone by since the
                    \* current_time their iteration read
    spc             \* position of the caller of stop()

schedvars == <<is_running, should_stop, current_thread, next_due, tpc,
               overrun, spc>>

\* APBackupScheduler (apscheduler_backup.py): the job of the scheduler
VARIABLES
    instances,      \* runs of the job in progress in the executor
    due,            \* run times gone by that the scheduler has not processed
    late,           \* the last of them is older than misfire_grace_time
    skipped,        \* run times discarded since the last run started,
                    \* because a run was in progress
    missed,         \* warnings logged by job_missed_listener
    ticks,          \* run times gone by in all
    ap_state,       \* "stopped": is_running is False; "running": start()
                    \* is in scheduler.start(); "shutting_down": stop() is
                    \* in scheduler.shutdown(wait=True)
    job_event       \* the last event job_listener logged: "none",
                    \* "executed" or "error"

apvars == <<instances, due, late, skipped, missed, ticks, ap_state, job_event>>

\* BackupProcessor.run_backup: one run of a job
VARIABLES
    configured,     \* config.get_databases_to_backup(): the configured pairs
    databases,      \* the pairs the run processes
    run_pc,         \* where run_backup is
    dbi,            \* the pair a loop of run_backup is at
    probe_failures, \* failed test_connection calls so far
    sent,           \* the calls made on source_client and dest_client
    run_result      \* "none", or the "success" of the dictionary returned

runvars == <<configured, databases, run_pc, dbi, probe_failures, sent,
             run_result>>

\* BackupProcessor._backup_database in incremental mode: where one
\* measurement and its fields start
VARIABLES
    field_last,         \* dest_client.get_field_last_timestamp per field
    first_time,         \* source_client.get_time_range(...)[0]
    measurement_start,  \* the start_time handed to _backup_measurement
    first_chunk,        \* per field, where its first chunk starts
    ipc,                \* where _backup_database is with the measurement
    cutoff_time,        \* datetime.now() - threshold, None without threshold
    active_fields,      \* the fields _backup_measurement submits
    inc_results         \* per field, the result in field_results, if any

incvars == <<field_last, first_time, measurement_start, first_chunk, ipc,
             cutoff_time, active_fields, inc_results>>

\* one call of InfluxDBClient.write_data
VARIABLES
    records,        \* the records handed to write_data, in the order of the
                    \* rows of the source
    batch,          \* the batch the loop of write_data is at
    posts,          \* the bodies of the POST requests made: the records
                    \* (by position) whose lines each one carries
    wlog,           \* what write_data logged
    wd_result,      \* "none" while it runs, else the value returned
    records_transferred
                    \* the count _backup_single_field keeps of the field

writevars == <<records, batch, posts, wlog, wd_result, records_transferred>>

procvars == <<runvars, incvars, writevars>>

jobvars == <<chunkvars, retryvars, fieldvars, poolvars, schedvars, apvars,
             procvars>>

vars == <<orchvars, jobvars>>

\* arguments and result of a call that has not been made
NoCall == [start_time |-> 0, end_time |-> 0, chunk_days |-> 1,
           called |-> FALSE, ranges |-> <<>>]

\* the job's machinery at rest
\* no adapter call in progress
RetryIdle ==
    /\ options = [retries |-> 0, retry_delay |-> 0]
    /\ method = "none"
    /\ attempt = 0
    /\ rpc = "idle"
    /\ requests = <<>>
    /\ sleeps = <<>>

\* no field being processed; at_shutdown is the number of chunks queried
\* when the shutdown event was set, -1 while it is not set
NoStats == [reason |-> "", rows |-> FALSE, wrote |-> FALSE,
            query_error |-> FALSE, at_shutdown |-> -1]

FieldIdle ==
    /\ fstats = NoStats
    /\ utcoffset = 0
    /\ dest_last = <<>>
    /\ field = [backup_mode |-> "range", start_time |-> 0, end_time |-> 0,
                chunk_days |-> 1]
    /\ fpc = "idle"
    /\ time_ranges = <<>>
    /\ chunk = 0
    /\ queried = <<>>
    /\ fresult = "none"

\* two measurements, in the order _backup_database takes them, and the
\* fields of each
Measurements == {1, 2}

\* the number of fields of a measurement
NFields == 2

Fields == 1..NFields

\* no backup running
PoolIdle ==
    /\ max_workers = 1
    /\ ppc = "idle"
    /\ measurement = 1
    /\ fstate = [mm \in Measurements |-> [f \in Fields |-> "none"]]
    /\ fchunk = [mm \in Measurements |-> [f \in Fields |-> 0]]
    /\ field_results = {}
    /\ errors = [mm \in Measurements |-> [f \in Fields |-> 0]]

\* the threads a BackupScheduler can have started
MaxThreads == 2

Threads == 1..MaxThreads

\* BackupScheduler.__init__
SchedIdle ==
    /\ is_running = FALSE
    /\ should_stop = FALSE
    /\ current_thread = 0
    /\ next_due = FALSE
    /\ tpc = [t \in Threads |-> "unborn"]
    /\ overrun = {}
    /\ spc = "idle"

\* APBackupScheduler.__init__
APIdle ==
    /\ instances = 0
    /\ due = 0
    /\ late = FALSE
    /\ skipped = 0
    /\ missed = 0
    /\ ticks = 0
    /\ ap_state = "stopped"
    /\ job_event = "none"

\* BackupProcessor.__init__: run_backup not called
RunIdle ==
    /\ configured = <<>>
    /\ databases = <<>>
    /\ run_pc = "idle"
    /\ dbi = 0
    /\ probe_failures = 0
    /\ sent = <<>>
    /\ run_result = "none"

\* a datetime that is None
NoTime == 0

\* _backup_database not called
IncIdle ==
    /\ field_last = [f \in Fields |-> NoTime]
    /\ first_time = NoTime
    /\ measurement_start = NoTime
    /\ first_chunk = [f \in Fields |-> NoTime]
    /\ ipc = "idle"
    /\ cutoff_time = NoTime
    /\ active_fields = {}
    /\ inc_results = [f \in Fields |-> "none"]

\* write_data not called
WriteIdle ==
    /\ records = <<>>
    /\ batch = 0
    /\ posts = <<>>
    /\ wlog = <<>>
    /\ wd_result = "none"
    /\ records_transferred = 0

ProcIdle == RunIdle /\ IncIdle /\ WriteIdle

\* the job's machinery at rest
JobIdle ==
    /\ gtr = NoCall
    /\ RetryIdle
    /\ FieldIdle
    /\ PoolIdle
    /\ SchedIdle
    /\ APIdle
    /\ ProcIdle

----------------------------------------------------------------------------
\* helpers

RECURSIVE SeqOfSet(_)
\* the elements of a set of jobs in increasing order: sorted(config_files)
SeqOfSet(S) ==
    IF S = {} THEN <<>>
    ELSE LET m == CHOOSE x \in S : \A y \in S : x <= y
         IN <<m>> \o SeqOfSet(S \ {m})

Range(s) == {s[k] : k \in 1..Len(s)}

\* Process.is_alive()
is_alive(j) == wpc[j] \in {"init", "running"}

----------------------------------------------------------------------------
\* configuration

find_config_files == SeqOfSet({j \in Jobs : cfg[j] # "absent"})

validate_config_file(j) == cfg[j] \notin {"absent", "invalid"}

\* get_backup_mode() == "incremental" and schedule is not None and
\* schedule.strip() != ""
is_long_running_process(j) == cfg[j] \in {"cron", "badcron"}

\* BackupProcessor.run and run_scheduled_backup: incremental and
\* `not schedule` False, so an APBackupScheduler is built and
\* schedule_backup called; a string of white space is not empty
installs_scheduler(j) == cfg[j] \in {"cron", "badcron", "blank"}

valid_configs_all(files) == files

valid_configs(files) == SelectSeq(files, validate_config_file)

long_running_configs == SelectSeq(valid_configs(find_config_files),
                                  is_long_running_process)

left_running_never(j) == FALSE

\* process.name in long_running_process_names
left_running(j) == j \in Range(long_running_configs)

----------------------------------------------------------------------------
\* outcomes put on the result queue by _run_backup_process

failure(j) ==
    [config |-> j, success |-> FALSE, long_running |-> FALSE, error |-> TRUE]

provisional(j) ==
    [config |-> j, success |-> TRUE, long_running |-> TRUE, error |-> FALSE]

final(j, ok) ==
    [config |-> j, success |-> ok, long_running |-> FALSE, error |-> ~ok]

long_running_count == Cardinality({k \in 1..Len(results) : results[k].long_running})

failed_count == Cardinality({k \in 1..Len(results) : ~results[k].success})

----------------------------------------------------------------------------
Init ==
    /\ cfg \in [Jobs -> Descriptors]
    /\ \A j, k \in Jobs : (j < k /\ cfg[j] = "absent") => cfg[k] = "absent"
    /\ validate_only \in BOOLEAN
    /\ pc = "main"
    /\ i = 1
    /\ processes = <<>>
    /\ results_queue = <<>>
    /\ results = <<>>
    /\ shutdown_event = FALSE
    /\ exit_code = -1
    /\ wpc = [j \in Jobs |-> "none"]
    /\ terminated = {}
    /\ killed = {}
    /\ JobIdle

----------------------------------------------------------------------------
\* main(), --validate-only

\* no file in the directory: "No configuration files found"
ValidateOnlyNoFiles ==
    /\ pc = "main" /\ validate_only
    /\ find_config_files = <<>>
    /\ exit_code' = 1
    /\ pc' = "returned"
    /\ UNCHANGED <<jobvars, cfg, validate_only, i, processes, results_queue, results,
                   shutdown_event, wpc, terminated, killed>>

\* return 0 if valid_count == len(config_files) else 1
ValidateOnly ==
    /\ pc = "main" /\ validate_only
    /\ find_config_files # <<>>
    /\ exit_code' = IF Len(valid_configs(find_config_files)) = Len(find_config_files)
                    THEN 0 ELSE 1
    /\ pc' = "returned"
    /\ UNCHANGED <<jobvars, cfg, validate_only, i, processes, results_queue, results,
                   shutdown_event, wpc, terminated, killed>>

----------------------------------------------------------------------------
\* BackupOrchestrator.run()

\* if not config_files: return 1
RunNoFiles ==
    /\ pc = "main" /\ ~validate_only
    /\ find_config_files = <<>>
    /\ exit_code' = 1
    /\ pc' = "returned"
    /\ UNCHANGED <<jobvars, cfg, validate_only, i, processes, results_queue, results,
                   shutdown_event, wpc, terminated, killed>>

\* if not valid_configs: return 1
RunNoValid ==
    /\ pc = "main" /\ ~validate_only
    /\ find_config_files # <<>>
    /\ valid_configs(find_config_files) = <<>>
    /\ exit_code' = 1
    /\ pc' = "returned"
    /\ UNCHANGED <<jobvars, cfg, validate_only, i, processes, results_queue, results,
                   shutdown_event, wpc, terminated, killed>>

\* at least one valid descriptor: go on to start the workers
RunValidated ==
    /\ pc = "main" /\ ~validate_only
    /\ valid_configs(find_config_files) # <<>>
    /\ pc' = "spawn"
    /\ i' = 1
    /\ UNCHANGED <<jobvars, cfg, validate_only, processes, results_queue, results,
                   shutdown_event, exit_code, wpc, terminated,
                   killed>>

\* one pass of `for config_path in valid_configs`: process.start()
Spawn ==
    /\ pc = "spawn"
    /\ LET configs == valid_configs(find_config_files)
           j == configs[i]
       IN /\ wpc' = [wpc EXCEPT ![j] = "init"]
          /\ processes' = Append(processes, j)
          /\ IF i < Len(configs)
             THEN i' = i + 1 /\ pc' = pc
             ELSE i' = 1 /\ pc' = "collect"
    /\ UNCHANGED <<jobvars, cfg, validate_only, results_queue, results, shutdown_event, exit_code, terminated, killed>>

\* _collect_results: results_queue.get(timeout=30) returns an outcome
CollectGet ==
    /\ pc = "collect"
    /\ Len(results) < Len(valid_configs(find_config_files))
    /\ results_queue # <<>>
    /\ results' = Append(results, Head(results_queue))
    /\ results_queue' = Tail(results_queue)
    /\ pc' = IF Len(results') < Len(valid_configs(find_config_files))
             THEN "collect" ELSE "join"
    /\ UNCHANGED <<jobvars, cfg, validate_only, i, processes, shutdown_event, exit_code, wpc, terminated, killed>>

\* _collect_results: nothing arrived for 30 seconds; queue.Empty is caught
\* by `except Exception`, logged, and the loop is left with `break`
CollectTimeout ==
    /\ pc = "collect"
    /\ Len(results) < Len(valid_configs(find_config_files))
    /\ results_queue = <<>>
    /\ pc' = "join"
    /\ UNCHANGED <<jobvars, cfg, validate_only, i, processes, results_queue, results,
                   shutdown_event, exit_code, wpc, terminated,
                   killed>>

\* `for process in self.processes`: a long-running worker is left alone and
\* a worker that is not alive needs no join
JoinSkip ==
    /\ pc = "join"
    /\ i <= Len(processes)
    /\ left_running(processes[i]) \/ ~is_alive(processes[i])
    /\ i' = i + 1
    /\ UNCHANGED <<jobvars, cfg, validate_only, pc, processes, results_queue, results,
                   shutdown_event, exit_code, wpc, terminated,
                   killed>>

\* if process.is_alive(): process.join(timeout=60)
JoinBegin ==
    /\ pc = "join"
    /\ i <= Len(processes)
    /\ ~left_running(processes[i]) /\ is_alive(processes[i])
    /\ pc' = "joinwait"
    /\ UNCHANGED <<jobvars, cfg, validate_only, i, processes, results_queue, results,
                   shutdown_event, exit_code, wpc, terminated,
                   killed>>

\* the worker ended within the 60 seconds
JoinReturn ==
    /\ pc = "joinwait"
    /\ ~is_alive(processes[i])
    /\ pc' = "join"
    /\ i' = i + 1
    /\ UNCHANGED <<jobvars, cfg, validate_only, processes, results_queue, results,
                   shutdown_event, exit_code, wpc, terminated,
                   killed>>

\* still alive after 60 seconds: process.terminate(); process.join(timeout=10)
JoinTimeout ==
    /\ pc = "joinwait"
    /\ is_alive(processes[i])
    /\ terminated' = terminated \cup {processes[i]}
    /\ pc' = "termwait"
    /\ UNCHANGED <<jobvars, cfg, validate_only, i, processes, results_queue, results,
                   shutdown_event, exit_code, wpc, killed>>

\* the worker ended within the 10 seconds after terminate()
TermJoinReturn ==
    /\ pc = "termwait"
    /\ ~is_alive(processes[i])
    /\ pc' = "join"
    /\ i' = i + 1
    /\ UNCHANGED <<jobvars, cfg, validate_only, processes, results_queue, results,
                   shutdown_event, exit_code, wpc, terminated,
                   killed>>

\* still alive 10 seconds after terminate(): process.kill()
TermJoinTimeout ==
    /\ pc = "termwait"
    /\ is_alive(processes[i])
    /\ killed' = killed \cup {processes[i]}
    /\ wpc' = [wpc EXCEPT ![processes[i]] = "killed"]
    /\ pc' = "join"
    /\ i' = i + 1
    /\ UNCHANGED <<jobvars, cfg, validate_only, processes, results_queue, results,
                   shutdown_event, exit_code, terminated>>

\* return 1 if failed_count > 0 else 0
exit_code_of_results == IF failed_count > 0 THEN 1 ELSE 0

\* after the join loop and _print_summary: long-running outcomes were
\* collected, so the orchestrator stays alive to monitor: time.sleep(60)
SummaryMonitor ==
    /\ pc = "join"
    /\ i > Len(processes)
    /\ long_running_count > 0
    /\ pc' = "sleep"
    /\ UNCHANGED <<jobvars, cfg, validate_only, i, processes, results_queue, results,
                   shutdown_event, exit_code, wpc, terminated, killed>>

\* after the join loop and _print_summary: no long-running outcome, run()
\* returns the exit code
SummaryExit ==
    /\ pc = "join"
    /\ i > Len(processes)
    /\ long_running_count = 0
    /\ exit_code' = exit_code_of_results
    /\ pc' = "returned"
    /\ UNCHANGED <<jobvars, cfg, validate_only, i, processes, results_queue, results,
                   shutdown_event, wpc, terminated, killed>>

active_processes == {j \in Range(processes) : left_running(j) /\ is_alive(j)}

\* time.sleep(60) is over: the liveness of the workers is polled
MonitorWake ==
    /\ pc = "sleep"
    /\ pc' = "poll"
    /\ UNCHANGED <<jobvars, cfg, validate_only, i, processes, results_queue, results,
                   shutdown_event, exit_code, wpc, terminated, killed>>

\* some long-running worker is alive: sleep again.  (_status_counter, which
\* only decides whether this pass logs a status line, is left out.)
MonitorContinue ==
    /\ pc = "poll"
    /\ active_processes # {}
    /\ pc' = "sleep"
    /\ UNCHANGED <<jobvars, cfg, validate_only, i, processes, results_queue, results,
                   shutdown_event, exit_code, wpc, terminated, killed>>

\* no long-running worker is alive: break, and run() returns the exit code
MonitorBreak ==
    /\ pc = "poll"
    /\ active_processes = {}
    /\ exit_code' = exit_code_of_results
    /\ pc' = "returned"
    /\ UNCHANGED <<jobvars, cfg, validate_only, i, processes, results_queue, results,
                   shutdown_event, wpc, terminated, killed>>

----------------------------------------------------------------------------
\* main(): `finally: orchestrator.cleanup()`

\* shutdown_event.set(), then terminate() on every worker still alive
Cleanup ==
    /\ pc = "returned"
    /\ shutdown_event' = TRUE
    /\ terminated' = terminated \cup {j \in Range(processes) : is_alive(j)}
    /\ pc' = "cleanup"
    /\ UNCHANGED <<jobvars, cfg, validate_only, i, processes, results_queue, results, exit_code, wpc, killed>>

\* `for process in self.processes: process.join(timeout=5)`, and kill() for
\* every worker still alive after its join; then exit(main())
CleanupKill ==
    /\ pc = "cleanup"
    /\ killed' = killed \cup {j \in Range(processes) : is_alive(j)}
    /\ wpc' = [j \in Jobs |-> IF j \in Range(processes) /\ is_alive(j)
                              THEN "killed" ELSE wpc[j]]
    /\ pc' = "exited"
    /\ UNCHANGED <<jobvars, cfg, validate_only, i, processes, results_queue, results,
                   shutdown_event, exit_code, terminated>>

----------------------------------------------------------------------------
\* the environment: SIGINT or SIGTERM delivered to the orchestrator process

\* the positions of run() from the first process.start() to its return
InRun == {"spawn", "collect", "join", "joinwait", "termwait", "sleep", "poll"}

\* signal_handler: log and self.shutdown_event.set(), nothing else.  The
\* signal arrives while run() is at work on its workers; the steps before
\* (listing and validating the files) do not read the event.
Signal ==
    /\ pc \in InRun
    /\ ~shutdown_event
    /\ shutdown_event' = TRUE
    /\ UNCHANGED <<jobvars, cfg, validate_only, pc, i, processes, results_queue, results, exit_code, wpc, terminated, killed>>

----------------------------------------------------------------------------
\* a worker process: _run_backup_process(config_path, results_queue,
\* shutdown_event).  Positions: none (not started), init (constructing the
\* BackupProcessor), running (inside processor.run()), and the ways to end:
\* done, failed (fatal error), refused (shutdown requested), crashed,
\* stopped (ended by terminate()), killed.

\* BackupProcessor(config_path) raises; `except Exception` posts a failure
WorkerInitFails(j) ==
    /\ wpc[j] = "init"
    /\ results_queue' = Append(results_queue, failure(j))
    /\ wpc' = [wpc EXCEPT ![j] = "failed"]
    /\ UNCHANGED <<jobvars, cfg, validate_only, pc, i, processes, results,
                   shutdown_event, exit_code, terminated,
                   killed>>

\* if shutdown_event.is_set(): post "Shutdown requested" and return
WorkerShutdownRequested(j) ==
    /\ wpc[j] = "init"
    /\ shutdown_event
    /\ results_queue' = Append(results_queue, failure(j))
    /\ wpc' = [wpc EXCEPT ![j] = "refused"]
    /\ UNCHANGED <<jobvars, cfg, validate_only, pc, i, processes, results,
                   shutdown_event, exit_code, terminated,
                   killed>>

\* the processor is built and no shutdown is requested: a long-running job
\* posts its provisional outcome; then processor.run() is entered
WorkerBegin(j) ==
    /\ wpc[j] = "init"
    /\ ~shutdown_event
    /\ results_queue' = IF is_long_running_process(j)
                        THEN Append(results_queue, provisional(j))
                        ELSE results_queue
    /\ wpc' = [wpc EXCEPT ![j] = "running"]
    /\ UNCHANGED <<jobvars, cfg, validate_only, pc, i, processes, results,
                   shutdown_event, exit_code, terminated,
                   killed>>

\* short-running job: run_backup() returns {"success": ok, ...} (it turns
\* its own exceptions, such as "Failed to prepare destination databases",
\* into success False with an error) and the final outcome is posted
WorkerRunBackup(j) ==
    /\ wpc[j] = "running"
    /\ ~installs_scheduler(j)
    /\ \E ok \in BOOLEAN :
         /\ results_queue' = Append(results_queue, final(j, ok))
         /\ wpc' = [wpc EXCEPT ![j] = IF ok THEN "done" ELSE "failed"]
    /\ UNCHANGED <<jobvars, cfg, validate_only, pc, i, processes, results,
                   shutdown_event, exit_code, terminated,
                   killed>>

\* a schedule CronTrigger rejects: schedule_backup raises
\* APSchedulerError, run_scheduled_backup logs "Scheduler error" and
\* returns None; _run_backup_process posts nothing for a long-running job,
\* and for another one calls result.get on None, which raises, and
\* `except Exception` posts a failure
WorkerSchedulerError(j) ==
    /\ wpc[j] = "running"
    /\ cfg[j] \in {"badcron", "blank"}
    /\ wpc' = [wpc EXCEPT ![j] = "failed"]
    /\ results_queue' = IF is_long_running_process(j) THEN results_queue
                        ELSE Append(results_queue, failure(j))
    /\ UNCHANGED <<jobvars, cfg, validate_only, pc, i, processes, results,
                   shutdown_event, exit_code, terminated,
                   killed>>

\* the worker process dies on its own (killed by the system, a fatal signal,
\* an error that is not an Exception) without posting anything
WorkerCrash(j) ==
    /\ is_alive(j)
    /\ wpc' = [wpc EXCEPT ![j] = "crashed"]
    /\ UNCHANGED <<jobvars, cfg, validate_only, pc, i, processes, results_queue, results,
                   shutdown_event, exit_code, terminated,
                   killed>>

\* the worker ends on the SIGTERM of terminate(); a worker that does not is
\* one that stays alive through the following join
WorkerTerminates(j) ==
    /\ is_alive(j)
    /\ j \in terminated
    /\ wpc' = [wpc EXCEPT ![j] = "stopped"]
    /\ UNCHANGED <<jobvars, cfg, validate_only, pc, i, processes, results_queue, results,
                   shutdown_event, exit_code, terminated,
                   killed>>

----------------------------------------------------------------------------
OrchestratorStep ==
    \/ ValidateOnlyNoFiles \/ ValidateOnly
    \/ RunNoFiles \/ RunNoValid \/ RunValidated
    \/ Spawn
    \/ CollectGet \/ CollectTimeout
    \/ JoinSkip \/ JoinBegin \/ JoinReturn \/ JoinTimeout
    \/ TermJoinReturn \/ TermJoinTimeout
    \/ SummaryMonitor \/ SummaryExit
    \/ MonitorWake \/ MonitorContinue \/ MonitorBreak
    \/ Cleanup \/ CleanupKill

Next ==
    \/ ValidateOnlyNoFiles \/ ValidateOnly
    \/ RunNoFiles \/ RunNoValid \/ RunValidated
    \/ Spawn
    \/ CollectGet \/ CollectTimeout
    \/ JoinSkip \/ JoinBegin \/ JoinReturn \/ JoinTimeout
    \/ TermJoinReturn \/ TermJoinTimeout
    \/ SummaryMonitor \/ SummaryExit
    \/ MonitorWake \/ MonitorContinue \/ MonitorBreak
    \/ Cleanup \/ CleanupKill
    \/ Signal
    \/ \E j \in Jobs : WorkerInitFails(j)
    \/ \E j \in Jobs : WorkerShutdownRequested(j)
    \/ \E j \in Jobs : WorkerBegin(j)
    \/ \E j \in Jobs : WorkerRunBackup(j)
    \/ \E j \in Jobs : WorkerSchedulerError(j)
    \/ \E j \in Jobs : WorkerCrash(j)
    \/ \E j \in Jobs : WorkerTerminates(j)

Spec == Init /\ [][Next]_vars

\* The orchestrator process is scheduled: it is never stopped forever while
\* one of its steps can be taken.  Nothing is assumed of the workers or of
\* the signals.
FairSpec == Spec /\ WF_vars(OrchestratorStep)

TypeOK ==
    /\ cfg \in [Jobs -> Descriptors]
    /\ validate_only \in BOOLEAN
    /\ pc \in InRun \cup {"main", "returned", "cleanup", "exited"}
    /\ i \in 1..(NJobs + 1)
    /\ Range(processes) \subseteq Jobs
    /\ shutdown_event \in BOOLEAN
    /\ exit_code \in {-1, 0, 1, 130}
    /\ wpc \in [Jobs -> {"none", "init", "running", "done", "failed", "refused",
                         "crashed", "stopped", "killed"}]
    /\ terminated \subseteq Jobs
    /\ killed \subseteq Jobs

----------------------------------------------------------------------------
\* vocabulary of the properties

\* every outcome a worker has posted, collected or still on the queue
posted == results_queue \o results

spawned == Range(processes)

valid_jobs == {j \in Jobs : validate_config_file(j)}

expected_processes == Len(valid_configs(find_config_files))

\* job j has a collected outcome with success False
recorded_failure(j) ==
    \E k \in 1..Len(results) : results[k].config = j /\ ~results[k].success

\* job j has posted an outcome with success False
posted_failure(j) ==
    \E k \in 1..Len(posted) : posted[k].config = j /\ ~posted[k].success

\* a failed job: it posted success False, its worker crashed, or its worker
\* was terminated after the join timeout
job_failed(j) ==
    posted_failure(j) \/ wpc[j] = "crashed" \/ j \in terminated

\* run() returns in this step
RunReturns == pc \in InRun /\ pc' = "returned"

----------------------------------------------------------------------------
\* C1: run() returns a non-zero exit code whenever at least one spawned job
\* failed (posted success False, crashed, or was terminated or killed after
\* the join timeout), and 0 only if every spawned job succeeded.
C1_NonZeroWhenAJobFailed ==
    [][(RunReturns /\ \E j \in spawned : job_failed(j)) => exit_code' # 0]_vars

\* C2: when run() reaches the summary, the collected results hold exactly
\* one outcome for every valid descriptor, none missing and none twice.
C2_OneOutcomePerValidDescriptor ==
    (pc = "join" /\ i > Len(processes)) =>
        \A j \in valid_jobs :
            Cardinality({k \in 1..Len(results) : results[k].config = j}) = 1

\* C3: a 30-second receive timeout does not end the collection: the
\* collection loop is left only with every expected outcome collected.
C3_TimeoutKeepsCollecting ==
    [][(pc = "collect" /\ pc' # "collect")
          => Len(results') = expected_processes]_vars

\* C4: if SIGINT or SIGTERM reached the orchestrator while run() was in
\* progress, run() ends with exit code 130.
C4_InterruptGives130 ==
    [][(RunReturns /\ shutdown_event) => exit_code' = 130]_vars

\* C5: if any descriptor file fails validation the exit code of the program
\* is 1, in --validate-only mode and in normal run mode alike.
C5_InvalidDescriptorGives1 ==
    (pc \in {"returned", "cleanup", "exited"} /\ \E j \in Jobs : cfg[j] = "invalid")
        => exit_code = 1

\* C6: run() starts exactly one worker per valid descriptor and none for an
\* invalid one; an invalid descriptor does not keep a valid one from being
\* started, and no descriptor gets a second worker whatever its outcome.
C6_OneWorkerPerValidDescriptor ==
    /\ \A k, l \in 1..Len(processes) : processes[k] = processes[l] => k = l
    /\ spawned \subseteq valid_jobs
    /\ \A j \in Jobs : wpc[j] # "none" <=> j \in spawned
    /\ (~validate_only /\ pc \notin {"main", "spawn"}) => spawned = valid_jobs

\* an invalid descriptor next to a valid one whose job failed, run() over
C6_Witness ==
    /\ pc = "exited" /\ ~validate_only
    /\ \E j \in Jobs : cfg[j] = "invalid"
    /\ \E j \in spawned : wpc[j] = "failed"

\* C7: a short-running worker is sent terminate only after its join timed
\* out with it alive; a worker is force-killed only after it was sent
\* terminate and was still alive after the following join; a long-running
\* worker is never terminated by the join-timeout path, only after
\* cancellation (the shutdown event set).
C7_WorkerStateMachine ==
    [][\A j \in Jobs :
         /\ (j \in terminated' \ terminated /\ ~is_long_running_process(j))
               => (pc = "joinwait" /\ processes[i] = j /\ is_alive(j))
         /\ (j \in killed' \ killed)
               => (/\ j \in terminated /\ is_alive(j)
                   /\ \/ pc = "termwait" /\ processes[i] = j
                      \/ pc = "cleanup")
         /\ (j \in terminated' \ terminated /\ is_long_running_process(j))
               => (shutdown_event' /\ pc \notin {"join", "joinwait", "termwait"})
      ]_vars

\* a short-running worker killed after its join timeout, and a long-running
\* worker terminated
C7_Witness ==
    /\ \E j \in killed : ~is_long_running_process(j)
    /\ \E j \in terminated : is_long_running_process(j)

\* C8: while the orchestrator monitors long-running workers, once a signal
\* has set the shutdown event it eventually cancels every live worker and
\* returns from run(), even if the workers would run forever.
C8_ShutdownEndsMonitoring ==
    (pc \in {"sleep", "poll"} /\ shutdown_event)
        ~> (pc = "returned" /\ \A j \in spawned : ~is_alive(j))

\* C9: every worker that crashed (a short-running one without a final
\* outcome, a long-running one while monitored) or that was killed for
\* staying alive past the join timeout has an outcome with success False in
\* the orchestrator's results when run() returns.
C9_CrashedOrKilledRecorded ==
    (pc = "returned" /\ ~validate_only) =>
        \A j \in spawned :
            (\/ j \in killed
             \/ wpc[j] = "crashed" /\ ~is_long_running_process(j)
             \/ wpc[j] = "crashed" /\ provisional(j) \in Range(results))
                => recorded_failure(j)

\* C10: every job whose run ended with a fatal error (an exception in the
\* worker, failure to prepare the destination, an invalid cron expression)
\* has posted an outcome with success False and an error string, and no
\* outcome of it with success True is in the results.
C10_FatalErrorReported ==
    \A j \in Jobs :
        wpc[j] = "failed" =>
            /\ \E k \in 1..Len(posted) :
                  posted[k].config = j /\ ~posted[k].success /\ posted[k].error
            /\ ~\E k \in 1..Len(results) :
                  results[k].config = j /\ results[k].success

----------------------------------------------------------------------------
\* The job's machinery.  The specifications below leave the orchestrator at
\* rest: a directory without files, before main() has done anything.

OrchIdle ==
    /\ cfg = [j \in Jobs |-> "absent"]
    /\ validate_only = FALSE
    /\ pc = "main"
    /\ i = 1
    /\ processes = <<>>
    /\ results_queue = <<>>
    /\ results = <<>>
    /\ shutdown_event = FALSE
    /\ exit_code = -1
    /\ wpc = [j \in Jobs |-> "none"]
    /\ terminated = {}
    /\ killed = {}

Min(a, b) == IF a <= b THEN a ELSE b

----------------------------------------------------------------------------
\* generate_time_ranges (utils.py).  A datetime is a number of ticks of the
\* datetime resolution; a day is DayLen ticks.

\* the largest datetime drawn as an argument
MaxTime == 7

\* ticks in one day
DayLen == 2

\* the largest days_of_pagination drawn as an argument
MaxChunkDays == 2

Times == 0..MaxTime

\* timedelta(days=chunk_days)
timedelta_days(chunk_days) == chunk_days * DayLen

chunk_end_uncapped(current_start, end_time, chunk_days) ==
    current_start + timedelta_days(chunk_days)

\* current_end = min(current_start + timedelta(days=chunk_days), end_time)
chunk_end(current_start, end_time, chunk_days) ==
    Min(current_start + timedelta_days(chunk_days), end_time)

RECURSIVE time_ranges_loop(_, _, _, _)
\* the while loop: one iteration appends (current_start, current_end) and
\* moves current_start to current_end
time_ranges_loop(ranges, current_start, end_time, chunk_days) ==
    IF current_start < end_time
    THEN LET current_end == chunk_end(current_start, end_time, chunk_days)
         IN  time_ranges_loop(Append(ranges, <<current_start, current_end>>),
                              current_end, end_time, chunk_days)
    ELSE ranges

generate_time_ranges(start_time, end_time, chunk_days) ==
    time_ranges_loop(<<>>, start_time, end_time, chunk_days)

\* any two datetimes and any days_of_pagination the schema accepts (> 0)
ChunkInit ==
    /\ OrchIdle
    /\ SchedIdle
    /\ APIdle
    /\ ProcIdle
    /\ RetryIdle
    /\ FieldIdle
    /\ PoolIdle
    /\ gtr \in [start_time : Times, end_time : Times,
                chunk_days : 1..MaxChunkDays, called : {FALSE},
                ranges : {<<>>}]

\* the call
GenerateTimeRanges ==
    /\ ~gtr.called
    /\ gtr' = [gtr EXCEPT !.called = TRUE,
                          !.ranges = generate_time_ranges(gtr.start_time,
                                         gtr.end_time, gtr.chunk_days)]
    /\ UNCHANGED <<orchvars, retryvars, fieldvars, poolvars, schedvars,
                   apvars, procvars>>

ChunkNext == GenerateTimeRanges

ChunkSpec == ChunkInit /\ [][ChunkNext]_vars

\* C13: for t0 < t1 the chunks returned tile [t0, t1): the first starts at
\* t0, the last ends at t1, each starts where the previous one ends, each is
\* non-empty and at most chunk_days wide, and all but the last are exactly
\* chunk_days wide; for t0 >= t1 no chunk is returned.
C13_ChunksTileTheInterval ==
    gtr.called =>
        LET r == gtr.ranges
            n == Len(r)
            w == timedelta_days(gtr.chunk_days)
        IN  IF gtr.start_time < gtr.end_time
            THEN /\ n >= 1
                 /\ r[1][1] = gtr.start_time
                 /\ r[n][2] = gtr.end_time
                 /\ \A k \in 1..(n - 1) : r[k + 1][1] = r[k][2]
                 /\ \A k \in 1..n : r[k][1] < r[k][2] /\ r[k][2] - r[k][1] <= w
                 /\ \A k \in 1..(n - 1) : r[k][2] - r[k][1] = w
            ELSE r = <<>>

\* several chunks, the last one shorter than chunk_days
C13_Witness ==
    /\ gtr.called
    /\ Len(gtr.ranges) >= 2
    /\ LET last == gtr.ranges[Len(gtr.ranges)]
       IN  last[2] - last[1] < timedelta_days(gtr.chunk_days)

----------------------------------------------------------------------------
\* The adapter's retry envelope: retry_with_backoff (utils.py) around
\* InfluxDBClient._execute_query and _execute_write.

\* the largest options.retries drawn
MaxRetries == 2

\* the largest options.retry_delay drawn, in seconds
MaxRetryDelay == 2

\* the decorator's arguments on both methods:
\* @retry_with_backoff(max_retries=3, retry_delay=1.0)
max_retries == 3

retry_delay == 1

\* What can happen to one HTTP request.  A write does not parse the body.
\* "ok" is status 204 for a write and, for a query, status 200 with a JSON
\* body that has a "results" key and no "error" key; "ok_empty" is status
\* 200 with a JSON body that has neither key, such as {}.
Responses(m) ==
    {"ok", "io_error", "timeout", "http_5xx", "http_4xx"}
        \cup (IF m = "query" THEN {"json_error", "ok_empty"} ELSE {})

\* transport-level and dialect-level failures
Transport == {"io_error", "timeout", "http_5xx"}

Dialect == {"http_4xx", "json_error"}

\* the exception the method raises for a response ("none": it returns)
raises(m, resp) ==
    CASE resp \in {"ok", "ok_empty"} -> "none"
      [] resp \in {"io_error", "timeout"} -> "InfluxDBConnectionError"
      [] resp \in {"http_5xx", "http_4xx"} ->
            IF m = "query" THEN "InfluxDBQueryError" ELSE "InfluxDBWriteError"
      [] resp = "json_error" -> "InfluxDBQueryError"

\* `except Exception as e`: the three classes derive from InfluxDBError,
\* which derives from Exception
caught(e) ==
    e \in {"InfluxDBConnectionError", "InfluxDBQueryError",
           "InfluxDBWriteError"}

RECURSIVE Pow2(_)
Pow2(n) == IF n = 0 THEN 1 ELSE 2 * Pow2(n - 1)

\* wait_time = retry_delay * (2**attempt)
wait_time(n) == retry_delay * Pow2(n)

\* BackupProcessor._create_influxdb_client hands options.retries and
\* options.retry_delay to InfluxDBClient.__init__, which stores them in
\* self.max_retries and self.retry_delay; no method reads the two fields.
RetryInit ==
    /\ OrchIdle
    /\ SchedIdle
    /\ APIdle
    /\ ProcIdle
    /\ gtr = NoCall
    /\ FieldIdle
    /\ PoolIdle
    /\ options \in [retries : 0..MaxRetries, retry_delay : 0..MaxRetryDelay]
    /\ method \in {"query", "write"}
    /\ attempt = 0
    /\ rpc = "call"
    /\ requests = <<>>
    /\ sleeps = <<>>

\* return func(*args, **kwargs)
CallReturns(resp) ==
    /\ rpc = "call"
    /\ raises(method, resp) = "none"
    /\ requests' = Append(requests, resp)
    /\ rpc' = "returned"
    /\ UNCHANGED <<options, method, attempt, sleeps, chunkvars, fieldvars,
                   poolvars, schedvars, apvars, procvars, orchvars>>

\* the method raises and attempt < max_retries: time.sleep(wait_time)
CallFailsSleep(resp) ==
    /\ rpc = "call"
    /\ caught(raises(method, resp))
    /\ attempt < max_retries
    /\ requests' = Append(requests, resp)
    /\ sleeps' = Append(sleeps, wait_time(attempt))
    /\ rpc' = "sleep"
    /\ UNCHANGED <<options, method, attempt, chunkvars, fieldvars,
                   poolvars, schedvars, apvars, procvars, orchvars>>

\* the method raises in the last iteration: raise last_exception
CallFailsRaise(resp) ==
    /\ rpc = "call"
    /\ caught(raises(method, resp))
    /\ ~(attempt < max_retries)
    /\ requests' = Append(requests, resp)
    /\ rpc' = "raised"
    /\ UNCHANGED <<options, method, attempt, sleeps, chunkvars, fieldvars,
                   poolvars, schedvars, apvars, procvars, orchvars>>

\* time.sleep returns: the next iteration of `for attempt in range(...)`
SleepReturns ==
    /\ rpc = "sleep"
    /\ attempt' = attempt + 1
    /\ rpc' = "call"
    /\ UNCHANGED <<options, method, requests, sleeps, chunkvars, fieldvars,
                   poolvars, schedvars, apvars, procvars, orchvars>>

\* the shutdown event of the worker's process is set while the call runs
ShutdownDuringCall ==
    /\ rpc \in {"call", "sleep"}
    /\ ~shutdown_event
    /\ shutdown_event' = TRUE
    /\ UNCHANGED <<cfg, validate_only, pc, i, processes, results_queue,
                   results, exit_code, wpc, terminated, killed, jobvars>>

RetryNext ==
    \/ \E resp \in Responses(method) : CallReturns(resp)
    \/ \E resp \in Responses(method) : CallFailsSleep(resp)
    \/ \E resp \in Responses(method) : CallFailsRaise(resp)
    \/ SleepReturns
    \/ ShutdownDuringCall

RetrySpec == RetryInit /\ [][RetryNext]_vars

\* what the decorated method gave its caller: "call" while it runs, else the
\* exception raised, or "none" with the last response
outcome ==
    CASE rpc = "raised" -> raises(method, requests[Len(requests)])
      [] rpc = "returned" -> "none"
      [] OTHER -> "call"

\* test_connection: `'results' in result`, False on any exception
test_connection(exc, resp) ==
    IF exc = "none" THEN [returns |-> resp = "ok"]
    ELSE [returns |-> FALSE]

\* write_data, one batch: True when _execute_write returned; `except
\* Exception` logs and returns False
write_data(exc) ==
    IF exc = "none" THEN [returns |-> TRUE] ELSE [returns |-> FALSE]

C16_ZeroRetriesOneAttempt ==
    options.retries = 0 => (Len(requests) <= 1 /\ sleeps = <<>>)

\* C17: a call sends at most options.retries + 1 requests, the sleep before
\* retry number k is options.retry_delay * 2^k, and the error is raised after
\* the last request without a further sleep.
C17_AttemptsAndDelaysFromOptions ==
    /\ Len(requests) <= options.retries + 1
    /\ \A k \in 1..Len(sleeps) :
          sleeps[k] = options.retry_delay * Pow2(k - 1)
    /\ rpc = "raised" => Len(sleeps) = Len(requests) - 1

\* C18: once the shutdown event is set, a failing call does not start a
\* backoff sleep and a sleeping call does not make a further attempt.
C18_ShutdownStopsRetrying ==
    [][shutdown_event =>
          /\ ~(rpc = "call" /\ rpc' = "sleep")
          /\ ~(rpc = "sleep" /\ rpc' = "call")]_vars

----------------------------------------------------------------------------
\* BackupProcessor._backup_single_field: the time window of one field and
\* its chunk loop.
\*
\* A datetime of the program is naive: a wall-clock reading in ticks (the
\* datetime resolution, one microsecond).  InfluxDB holds timestamps in
\* nanoseconds since the epoch, NsPerTick of them in a tick.

\* nanoseconds in one tick
NsPerTick == 2

\* the largest offset of local time from UTC, either way, in ticks
MaxUtcOffset == 2

\* timedelta(microseconds=1)
microsecond == 1

\* timestamp_ns / 1_000_000_000 as a datetime: datetime.fromtimestamp rounds
\* to the nearest tick, the half to the even tick ...
round_half_even(ns) ==
    LET q == ns \div NsPerTick
        r == ns % NsPerTick
    IN  IF 2 * r < NsPerTick THEN q
        ELSE IF 2 * r > NsPerTick THEN q + 1
        ELSE IF q % 2 = 0 THEN q ELSE q + 1

\* ... and, called without tz, answers the local wall-clock reading
fromtimestamp(ns) == round_half_even(ns) + utcoffset

\* InfluxDBClient.get_field_last_timestamp: a datetime, or None (<<>>)
get_field_last_timestamp ==
    IF dest_last = <<>> THEN <<>> ELSE <<fromtimestamp(dest_last[1])>>

\* dt.isoformat() + "Z" for a naive datetime: the reading, labelled UTC
format_influxdb_time(dt) == [iso |-> dt, zone |-> "Z"]

\* the instant InfluxDB reads in `time >= '<str>'`, in nanoseconds: a
\* reading labelled Z is a UTC reading
InstantOf(str) == str.iso * NsPerTick

\* _backup_database calls _backup_measurement, and that the method, only
\* with measurement_start < end_time (line 902).  The destination's
\* timestamp lies within the days the datetimes are drawn from.
FieldInit ==
    /\ OrchIdle
    /\ SchedIdle
    /\ APIdle
    /\ ProcIdle
    /\ gtr = NoCall
    /\ RetryIdle
    /\ PoolIdle
    /\ utcoffset \in (0 - MaxUtcOffset)..MaxUtcOffset
    /\ dest_last \in {<<>>} \cup {<<ns>> : ns \in 0..(MaxTime * NsPerTick)}
    /\ field \in {f \in [backup_mode : {"incremental", "range"},
                         start_time : Times, end_time : Times,
                         chunk_days : 1..MaxChunkDays] :
                     f.start_time < f.end_time}
    /\ fpc = "start"
    /\ time_ranges = <<>>
    /\ chunk = 0
    /\ queried = <<>>
    /\ fresult = "none"
    /\ fstats = NoStats

\* field_start_time, where the method computes one (lines 379-387)
has_field_start ==
    field.backup_mode = "incremental" /\ get_field_last_timestamp # <<>>

field_start_time == get_field_last_timestamp[1] + microsecond

\* incremental and field_start_time >= end_time: skipped, "no_new_data"
FieldNoNewData ==
    /\ fpc = "start"
    /\ has_field_start
    /\ field_start_time >= field.end_time
    /\ fpc' = "returned"
    /\ fresult' = "skipped"
    /\ fstats' = [fstats EXCEPT !.reason = "no_new_data"]
    /\ UNCHANGED <<utcoffset, dest_last, field, time_ranges, chunk, queried,
                   orchvars, chunkvars, retryvars, poolvars,
                   schedvars, apvars, procvars>>

\* start_time = field_start_time (line 408), or start_time as given
FieldWindow ==
    /\ fpc = "start"
    /\ has_field_start => field_start_time < field.end_time
    /\ field' = IF has_field_start
                THEN [field EXCEPT !.start_time = field_start_time]
                ELSE field
    /\ fpc' = "window"
    /\ UNCHANGED <<fstats, utcoffset, dest_last, time_ranges, chunk, queried, fresult,
                   orchvars, chunkvars, retryvars, poolvars,
                   schedvars, apvars, procvars>>

\* _is_field_obsolete answers True: skipped, "obsolete"; or count_records,
\* the count of the first column of the measurement between start_time and
\* end_time, or 0 if the query failed, is 0: skipped, "no_data_in_range"
FieldSkipped(reason) ==
    /\ fpc = "window"
    /\ fpc' = "returned"
    /\ fresult' = "skipped"
    /\ fstats' = [fstats EXCEPT !.reason = reason]
    /\ UNCHANGED <<utcoffset, dest_last, field, time_ranges, chunk, queried,
                   orchvars, chunkvars, retryvars, poolvars,
                   schedvars, apvars, procvars>>

\* time_ranges = generate_time_ranges(start_time, end_time, chunk_days)
FieldPaginate ==
    /\ fpc = "window"
    /\ time_ranges' = generate_time_ranges(field.start_time, field.end_time,
                                           field.chunk_days)
    /\ chunk' = 1
    /\ fpc' = "loop"
    /\ UNCHANGED <<fstats, utcoffset, dest_last, field, queried, fresult, orchvars,
                   chunkvars, retryvars, poolvars, schedvars, apvars, procvars>>

\* the bounds query_data puts in the query of the chunk the loop is at
chunk_query ==
    <<format_influxdb_time(time_ranges[chunk][1]),
      format_influxdb_time(time_ranges[chunk][2])>>

\* what query_data returns for what became of its query: the records, or
\* [] if there are none, if the body has no "results", or if _execute_query
\* raised (`except Exception`: log, return [])
query_data(resp) == IF resp = "rows" THEN <<"record">> ELSE <<>>

\* query_data for the chunk; no records, or write_data answers True
FieldChunkDone(resp) ==
    /\ fpc = "loop"
    /\ chunk <= Len(time_ranges)
    /\ queried' = Append(queried, chunk_query)
    /\ chunk' = chunk + 1
    /\ fstats' = [fstats EXCEPT
                     !.rows = @ \/ query_data(resp) # <<>>,
                     !.wrote = @ \/ query_data(resp) # <<>>,
                     !.query_error = @ \/ resp = "error"]
    /\ UNCHANGED <<utcoffset, dest_last, field, fpc, time_ranges, fresult,
                   orchvars, chunkvars, retryvars, poolvars,
                   schedvars, apvars, procvars>>

\* query_data for the chunk; write_data answers False: the method returns
FieldWriteFails ==
    /\ fpc = "loop"
    /\ chunk <= Len(time_ranges)
    /\ queried' = Append(queried, chunk_query)
    /\ fpc' = "returned"
    /\ fresult' = "failed"
    /\ fstats' = [fstats EXCEPT !.rows = TRUE, !.wrote = TRUE]
    /\ UNCHANGED <<utcoffset, dest_last, field, time_ranges, chunk,
                   orchvars, chunkvars, retryvars, poolvars,
                   schedvars, apvars, procvars>>

\* the loop is over
FieldCompleted ==
    /\ fpc = "loop"
    /\ chunk > Len(time_ranges)
    /\ fpc' = "returned"
    /\ fresult' = "ok"
    /\ UNCHANGED <<fstats, utcoffset, dest_last, field, time_ranges, chunk, queried,
                   orchvars, chunkvars, retryvars, poolvars,
                   schedvars, apvars, procvars>>

\* the signal handler of the orchestrator sets the shutdown event while the
\* worker is in the loop over the chunks of a field; _backup_single_field
\* and its callers hold no reference to the event
FieldShutdown ==
    /\ fpc = "loop"
    /\ ~shutdown_event
    /\ shutdown_event' = TRUE
    /\ fstats' = [fstats EXCEPT !.at_shutdown = Len(queried)]
    /\ UNCHANGED <<cfg, validate_only, pc, i, processes, results_queue,
                   results, exit_code, wpc, terminated, killed>>
    /\ UNCHANGED <<utcoffset, dest_last, field, fpc, time_ranges, chunk,
                   queried, fresult, chunkvars, retryvars, poolvars,
                   schedvars, apvars, procvars>>

FieldNext ==
    \/ FieldShutdown
    \/ FieldNoNewData \/ FieldWindow
    \/ \E reason \in {"obsolete", "no_data_in_range"} : FieldSkipped(reason)
    \/ FieldPaginate
    \/ \E resp \in {"rows", "empty", "error"} : FieldChunkDone(resp)
    \/ FieldWriteFails \/ FieldCompleted

FieldSpec == FieldInit /\ [][FieldNext]_vars

\* C12: in incremental mode, for a field with a last timestamp in the
\* destination, the lower bound of the first query made to the source is an
\* instant strictly after that timestamp.
C12_FirstChunkAfterLastTimestamp ==
    (field.backup_mode = "incremental" /\ dest_last # <<>> /\ queried # <<>>)
        => InstantOf(queried[1][1]) > dest_last[1]

----------------------------------------------------------------------------
\* BackupProcessor._backup_database and _backup_measurement: one
\* ThreadPoolExecutor per measurement, a future per field.  run_backup calls
\* _backup_database for one database after the other, so the measurements
\* of a later database follow those of an earlier one in the same way.

\* the largest size of the pool drawn
MaxWorkers == 2

\* the chunks of a field (the length of its time_ranges)
NChunks == 2

\* the pool size comes from config.get_parallel_workers()
PoolInit ==
    /\ OrchIdle
    /\ SchedIdle
    /\ APIdle
    /\ ProcIdle
    /\ gtr = NoCall
    /\ RetryIdle
    /\ FieldIdle
    /\ max_workers \in 1..MaxWorkers
    /\ ppc = "measurement"
    /\ measurement = 1
    /\ fstate = [mm \in Measurements |-> [f \in Fields |-> "none"]]
    /\ fchunk = [mm \in Measurements |-> [f \in Fields |-> 0]]
    /\ field_results = {}
    /\ errors = [mm \in Measurements |-> [f \in Fields |-> 0]]

\* the fields of a measurement a thread of the pool is working on
active(mm) == {f \in Fields : fstate[mm][f] = "running"}

thread_always(mm) == TRUE

\* ThreadPoolExecutor(max_workers=max_workers): a queued call starts when
\* fewer than max_workers threads are busy
thread_available(mm) == Cardinality(active(mm)) < max_workers

\* executor.submit(self._backup_single_field, ...) for every active field
SubmitFields ==
    /\ ppc = "measurement"
    /\ measurement \in Measurements
    /\ fstate' = [fstate EXCEPT ![measurement] = [f \in Fields |-> "queued"]]
    /\ field_results' = {}
    /\ ppc' = "pool"
    /\ UNCHANGED <<max_workers, measurement, fchunk, errors, orchvars,
                   chunkvars, retryvars, fieldvars, schedvars, apvars, procvars>>

\* a thread of the pool takes the call of field f from the queue
FieldStarts(f) ==
    /\ ppc = "pool"
    /\ fstate[measurement][f] = "queued"
    /\ thread_available(measurement)
    /\ fstate' = [fstate EXCEPT ![measurement][f] = "running"]
    /\ UNCHANGED <<max_workers, ppc, measurement, fchunk, field_results,
                   errors, orchvars, chunkvars, retryvars, fieldvars, schedvars, apvars, procvars>>

\* _backup_single_field: a chunk queried and written
FieldChunkWritten(f) ==
    /\ ppc = "pool"
    /\ fstate[measurement][f] = "running"
    /\ fchunk[measurement][f] < NChunks
    /\ fchunk' = [fchunk EXCEPT ![measurement][f] = @ + 1]
    /\ UNCHANGED <<max_workers, ppc, measurement, fstate, field_results,
                   errors, orchvars, chunkvars, retryvars, fieldvars, schedvars, apvars, procvars>>

\* _backup_single_field: write_data answers False, the method returns a
\* result with success False
FieldWriteFailed(f) ==
    /\ ppc = "pool"
    /\ fstate[measurement][f] = "running"
    /\ fchunk[measurement][f] < NChunks
    /\ fstate' = [fstate EXCEPT ![measurement][f] = "failed"]
    /\ UNCHANGED <<max_workers, ppc, measurement, fchunk, field_results,
                   errors, orchvars, chunkvars, retryvars, fieldvars, schedvars, apvars, procvars>>

\* _backup_single_field returns before its chunk loop with success True and
\* skipped True (no new data, obsolete, no data in range)
FieldReturnsSkipped(f) ==
    /\ ppc = "pool"
    /\ fstate[measurement][f] = "running"
    /\ fchunk[measurement][f] = 0
    /\ fstate' = [fstate EXCEPT ![measurement][f] = "skipped"]
    /\ UNCHANGED <<max_workers, ppc, measurement, fchunk, field_results,
                   errors, orchvars, chunkvars, retryvars, fieldvars,
                   schedvars, apvars, procvars>>

\* the field is put back in the queue when its call returns
FieldReturns_requeued(f) ==
    /\ ppc = "pool"
    /\ fstate[measurement][f] = "running"
    /\ fchunk[measurement][f] = NChunks
    /\ fstate' = [fstate EXCEPT ![measurement][f] = "queued"]
    /\ UNCHANGED <<max_workers, ppc, measurement, fchunk, field_results,
                   errors, orchvars, chunkvars, retryvars, fieldvars,
                   schedvars, apvars, procvars>>

\* _backup_single_field: the loop is over, the method returns success True
FieldReturns(f) ==
    /\ ppc = "pool"
    /\ fstate[measurement][f] = "running"
    /\ fchunk[measurement][f] = NChunks
    /\ fstate' = [fstate EXCEPT ![measurement][f] = "done"]
    /\ UNCHANGED <<max_workers, ppc, measurement, fchunk, field_results,
                   errors, orchvars, chunkvars, retryvars, fieldvars, schedvars, apvars, procvars>>

errors_unrecorded(errs, mm, f) == errs

\* result["success"] False: self.stats["errors"].append(...)
errors_after(errs, mm, f) ==
    IF fstate[mm][f] = "failed" THEN [errs EXCEPT ![mm][f] = @ + 1] ELSE errs

\* as_completed hands over the future of field f: field_results.append
HandleResult(f) ==
    /\ ppc = "pool"
    /\ fstate[measurement][f] \in {"done", "failed", "skipped"}
    /\ f \notin field_results
    /\ field_results' = field_results \cup {f}
    /\ errors' = errors_after(errors, measurement, f)
    /\ UNCHANGED <<max_workers, ppc, measurement, fstate, fchunk, orchvars,
                   chunkvars, retryvars, fieldvars, schedvars, apvars, procvars>>

\* every future handed over: the with block ends, _backup_measurement
\* returns and the loop of _backup_database moves on
NextMeasurement ==
    /\ ppc = "pool"
    /\ field_results = Fields
    /\ measurement' = measurement + 1
    /\ ppc' = IF measurement + 1 \in Measurements THEN "measurement"
              ELSE "finished"
    /\ UNCHANGED <<max_workers, fstate, fchunk, field_results, errors,
                   orchvars, chunkvars, retryvars, fieldvars, schedvars, apvars, procvars>>

PoolNext ==
    \/ SubmitFields
    \/ \E f \in Fields : FieldStarts(f)
    \/ \E f \in Fields : FieldChunkWritten(f)
    \/ \E f \in Fields : FieldWriteFailed(f)
    \/ \E f \in Fields : FieldReturnsSkipped(f)
    \/ \E f \in Fields : FieldReturns(f)
    \/ \E f \in Fields : HandleResult(f)
    \/ NextMeasurement

PoolSpec == PoolInit /\ [][PoolNext]_vars

\* the summary of _backup_measurement and _update_parallel_stats: the
\* results with success False, and those with success True, skipped or not
failed_fields(mm) == {f \in field_results : fstate[mm][f] = "failed"}

skipped_fields(mm) == {f \in field_results : fstate[mm][f] = "skipped"}

processed_fields(mm) == {f \in field_results : fstate[mm][f] = "done"}

\* C11: never more than max_workers field workers are running, and they
\* all belong to the measurement the loop is at: the fields of the earlier
\* measurements have all returned, those of the later ones are not yet
\* submitted.
C11_PoolBoundAndOneMeasurementAtATime ==
    \A mm \in Measurements :
        /\ Cardinality(active(mm)) <= max_workers
        /\ mm < measurement =>
              \A f \in Fields :
                  fstate[mm][f] \in {"done", "failed", "skipped"}
        /\ mm > measurement => \A f \in Fields : fstate[mm][f] = "none"

\* the pool is full and a field waits for a thread
C11_Witness ==
    /\ ppc = "pool"
    /\ Cardinality(active(measurement)) = max_workers
    /\ \E f \in Fields : fstate[measurement][f] = "queued"

\* C14: a field whose write failed stays failed with the chunks it had, and
\* when the run is over every field of every measurement has either been
\* written to its last chunk or skipped before its first, with no error
\* recorded, or failed, with exactly one error recorded.
C14_WriteFailureAbortsFieldOnly ==
    [][/\ \A mm \in Measurements, f \in Fields :
             fstate[mm][f] = "failed" =>
                 (fstate'[mm][f] = "failed" /\ fchunk'[mm][f] = fchunk[mm][f])
       /\ ppc' = "finished" =>
             \A mm \in Measurements, f \in Fields :
                 \/ /\ fstate'[mm][f] = "done"
                    /\ fchunk'[mm][f] = NChunks
                    /\ errors'[mm][f] = 0
                 \/ /\ fstate'[mm][f] = "skipped"
                    /\ fchunk'[mm][f] = 0
                    /\ errors'[mm][f] = 0
                 \/ /\ fstate'[mm][f] = "failed"
                    /\ errors'[mm][f] = 1]_vars

\* the run is over; a field failed, another field of its measurement and a
\* field of a later measurement were written to the end
C14_Witness ==
    /\ ppc = "finished"
    /\ \E mm \in Measurements, f, g \in Fields :
          /\ fstate[mm][f] = "failed"
          /\ fstate[mm][g] = "done"
          /\ \E m2 \in Measurements, h \in Fields :
                m2 > mm /\ fstate[m2][h] = "done"

----------------------------------------------------------------------------
\* BackupScheduler (scheduler.py): schedule_backup starts a thread that runs
\* _scheduler_loop; stop() asks it to end and waits 30 s for it.  A cron
\* time going by is a step of its own (CronTime).

SchedInit ==
    /\ OrchIdle
    /\ gtr = NoCall
    /\ RetryIdle
    /\ FieldIdle
    /\ PoolIdle
    /\ APIdle
    /\ ProcIdle
    /\ SchedIdle

\* Thread.is_alive()
thread_alive(t) == t \in Threads /\ tpc[t] \in {"check", "backup", "sleep"}

\* schedule_backup with a valid expression, the scheduler not running:
\* next_run_time is the next cron time from now, a new thread is started
ScheduleBackup ==
    /\ spc = "idle"
    /\ ~is_running
    /\ \E t \in Threads :
          /\ tpc[t] = "unborn"
          /\ \A u \in Threads : u < t => tpc[u] # "unborn"
          /\ tpc' = [tpc EXCEPT ![t] = "check"]
          /\ current_thread' = t
    /\ next_due' = FALSE
    /\ is_running' = TRUE
    /\ should_stop' = FALSE
    /\ UNCHANGED <<overrun, spc, orchvars, chunkvars, retryvars, fieldvars,
                   poolvars, apvars, procvars>>

\* a cron time goes by
CronTime ==
    /\ \E t \in Threads : thread_alive(t)
    /\ ~next_due \/ \E t \in Threads : tpc[t] = "backup" /\ t \notin overrun
    /\ next_due' = TRUE
    /\ overrun' = overrun \cup {t \in Threads : tpc[t] = "backup"}
    /\ UNCHANGED <<is_running, should_stop, current_thread, tpc, spc,
                   orchvars, chunkvars, retryvars, fieldvars, poolvars,
                   apvars, procvars>>

\* `while not self.should_stop` is over: the loop ends
LoopStops(t) ==
    /\ tpc[t] = "check"
    /\ should_stop
    /\ tpc' = [tpc EXCEPT ![t] = "exited"]
    /\ is_running' = FALSE
    /\ UNCHANGED <<should_stop, current_thread, next_due, overrun, spc,
                   orchvars, chunkvars, retryvars, fieldvars, poolvars,
                   apvars, procvars>>

\* current_time >= self.next_run_time: _execute_scheduled_backup
LoopExecutes(t) ==
    /\ tpc[t] = "check"
    /\ ~should_stop
    /\ next_due
    /\ tpc' = [tpc EXCEPT ![t] = "backup"]
    /\ overrun' = overrun \ {t}
    /\ UNCHANGED <<is_running, should_stop, current_thread, next_due, spc,
                   orchvars, chunkvars, retryvars, fieldvars, poolvars,
                   apvars, procvars>>

\* not yet time: time.sleep(30)
LoopWaits(t) ==
    /\ tpc[t] = "check"
    /\ ~should_stop
    /\ ~next_due
    /\ tpc' = [tpc EXCEPT ![t] = "sleep"]
    /\ UNCHANGED <<is_running, should_stop, current_thread, next_due,
                   overrun, spc, orchvars, chunkvars, retryvars, fieldvars,
                   poolvars, apvars, procvars>>

\* the backup function returns, or raises and _execute_scheduled_backup
\* logs the exception: next_run_time is the next cron time from
\* the current_time read before the run, then time.sleep(30)
BackupReturns(t) ==
    /\ tpc[t] = "backup"
    /\ next_due' = (t \in overrun)
    /\ tpc' = [tpc EXCEPT ![t] = "sleep"]
    /\ UNCHANGED <<is_running, should_stop, current_thread, overrun, spc,
                   orchvars, chunkvars, retryvars, fieldvars, poolvars,
                   apvars, procvars>>

\* time.sleep(30) returns
LoopWakes(t) ==
    /\ tpc[t] = "sleep"
    /\ tpc' = [tpc EXCEPT ![t] = "check"]
    /\ UNCHANGED <<is_running, should_stop, current_thread, next_due,
                   overrun, spc, orchvars, chunkvars, retryvars, fieldvars,
                   poolvars, apvars, procvars>>

\* stop() on a running scheduler: should_stop = True, then join(timeout=30)
\* if the thread is alive
Stop ==
    /\ spc = "idle"
    /\ is_running
    /\ should_stop' = TRUE
    /\ IF thread_alive(current_thread)
       THEN spc' = "join" /\ UNCHANGED is_running
       ELSE is_running' = FALSE /\ UNCHANGED spc
    /\ UNCHANGED <<current_thread, next_due, tpc, overrun, orchvars,
                   chunkvars, retryvars, fieldvars, poolvars, apvars, procvars>>

\* join returns, the thread having ended or the 30 s being over ("did not
\* stop gracefully"): is_running = False either way
StopReturns ==
    /\ spc = "join"
    /\ is_running' = FALSE
    /\ spc' = "idle"
    /\ UNCHANGED <<should_stop, current_thread, next_due, tpc, overrun,
                   orchvars, chunkvars, retryvars, fieldvars, poolvars,
                   apvars, procvars>>

SchedNext ==
    \/ ScheduleBackup
    \/ CronTime
    \/ \E t \in Threads : LoopStops(t)
    \/ \E t \in Threads : LoopExecutes(t)
    \/ \E t \in Threads : LoopWaits(t)
    \/ \E t \in Threads : BackupReturns(t)
    \/ \E t \in Threads : LoopWakes(t)
    \/ Stop
    \/ StopReturns

SchedSpec == SchedInit /\ [][SchedNext]_vars

\* C19: at no time are two executions of the backup function in progress.
C19_OneExecutionAtATime ==
    Cardinality({t \in Threads : tpc[t] = "backup"}) <= 1

----------------------------------------------------------------------------
\* APBackupScheduler (apscheduler_backup.py): a BlockingScheduler with one
\* cron job, an executor of one thread and the job defaults coalesce True,
\* max_instances 1, misfire_grace_time 300.  The scheduler processes the run
\* times gone by when it wakes; the job runs in the executor's thread.

\* cron run times gone by in a behaviour
MaxTicks == 4

\* "max_instances": 1
max_instances == 1

\* the scheduler built, the job added, start() not yet called
APInit ==
    /\ OrchIdle
    /\ gtr = NoCall
    /\ RetryIdle
    /\ FieldIdle
    /\ PoolIdle
    /\ SchedIdle
    /\ APIdle
    /\ ProcIdle

\* start(): is_running = True, then scheduler.start() runs the scheduler in
\* the calling thread
APStart ==
    /\ ap_state = "stopped"
    /\ ticks = 0
    /\ ap_state' = "running"
    /\ UNCHANGED <<job_event, instances, due, late, skipped, missed, ticks, orchvars,
                   chunkvars, retryvars, fieldvars, poolvars, schedvars, procvars>>

\* a run time of the cron trigger goes by
APTick ==
    /\ ap_state = "running"
    /\ ticks < MaxTicks
    /\ ticks' = ticks + 1
    /\ due' = due + 1
    /\ late' = FALSE
    /\ UNCHANGED <<job_event, ap_state, instances, skipped, missed, orchvars, chunkvars,
                   retryvars, fieldvars, poolvars, schedvars, procvars>>

\* the scheduler has not woken for more than misfire_grace_time since the
\* last run time gone by
APGraceOver ==
    /\ ap_state = "running"
    /\ due > 0
    /\ ~late
    /\ late' = TRUE
    /\ UNCHANGED <<job_event, ap_state, instances, due, skipped, missed, ticks, orchvars,
                   chunkvars, retryvars, fieldvars, poolvars, schedvars, procvars>>

\* the scheduler wakes with a run in progress: with coalesce it keeps the
\* last run time gone by, the executor refuses it (max_instances reached)
\* and the scheduler discards it with a warning of its own
APSkipped ==
    /\ ap_state = "running"
    /\ due > 0
    /\ ~(instances < max_instances)
    /\ due' = 0
    /\ late' = FALSE
    /\ skipped' = skipped + due
    /\ UNCHANGED <<job_event, ap_state, instances, missed, ticks, orchvars, chunkvars, retryvars,
                   fieldvars, poolvars, schedvars, procvars>>

\* the scheduler wakes, no run in progress, the last run time gone by is
\* older than misfire_grace_time: EVENT_JOB_MISSED, job_missed_listener
APMissed ==
    /\ ap_state = "running"
    /\ due > 0
    /\ instances < max_instances
    /\ late
    /\ due' = 0
    /\ late' = FALSE
    /\ missed' = missed + 1
    /\ UNCHANGED <<job_event, ap_state, instances, skipped, ticks, orchvars, chunkvars, retryvars,
                   fieldvars, poolvars, schedvars, procvars>>

\* the scheduler wakes, no run in progress, within the grace: one run of
\* backup_wrapper starts, however many run times went by (coalesce)
APRunStarts ==
    /\ ap_state = "running"
    /\ due > 0
    /\ instances < max_instances
    /\ ~late
    /\ due' = 0
    /\ instances' = instances + 1
    /\ skipped' = 0
    /\ UNCHANGED <<job_event, ap_state, late, missed, ticks, orchvars, chunkvars, retryvars,
                   fieldvars, poolvars, schedvars, procvars>>

\* backup_wrapper raises and the scheduler ends with it
APRunEnds_fatal(raised) ==
    /\ instances > 0
    /\ instances' = instances - 1
    /\ job_event' = IF raised THEN "error" ELSE "executed"
    /\ ap_state' = IF raised THEN "stopped" ELSE ap_state
    /\ UNCHANGED <<due, late, skipped, missed, ticks, orchvars, chunkvars,
                   retryvars, fieldvars, poolvars, schedvars, procvars>>

\* backup_wrapper returns, or logs "SCHEDULED BACKUP FAILED" and raises
\* again: the executor hands EVENT_JOB_EXECUTED or EVENT_JOB_ERROR to
\* job_listener, which logs the outcome; the job stays in the job store
APRunEnds(raised) ==
    /\ instances > 0
    /\ instances' = instances - 1
    /\ job_event' = IF raised THEN "error" ELSE "executed"
    /\ UNCHANGED <<ap_state, due, late, skipped, missed, ticks, orchvars, chunkvars,
                   retryvars, fieldvars, poolvars, schedvars, procvars>>

\* stop(), called by signal_handler on SIGINT or SIGTERM or by the owner of
\* the scheduler: is_running is True, so it enters
\* scheduler.shutdown(wait=True); the scheduler processes no run time from
\* there on
APStop ==
    /\ ap_state = "running"
    /\ ap_state' = "shutting_down"
    /\ UNCHANGED <<job_event, instances, due, late, skipped, missed, ticks, orchvars,
                   chunkvars, retryvars, fieldvars, poolvars, schedvars, procvars>>

\* shutdown(wait=True) returns once the executor's pool has joined its
\* threads, that is once no run is in progress; it takes no timeout. Then
\* is_running = False and stop() returns
APStopReturns ==
    /\ ap_state = "shutting_down"
    /\ instances = 0
    /\ ap_state' = "stopped"
    /\ UNCHANGED <<job_event, instances, due, late, skipped, missed, ticks, orchvars,
                   chunkvars, retryvars, fieldvars, poolvars, schedvars, procvars>>

APNext ==
    \/ APStart
    \/ APTick \/ APGraceOver
    \/ APSkipped \/ APMissed \/ APRunStarts
    \/ \E raised \in BOOLEAN : APRunEnds(raised)
    \/ APStop \/ APStopReturns

APSpec == APInit /\ [][APNext]_vars

\* stop() goes on once shutdown(wait=True) can return; backup_wrapper is the
\* job's own code and nothing makes it return
APFairSpec == APSpec /\ WF_vars(APStopReturns)

\* C20: the step that ends a run during which cron ticks fired starts one
\* further run, so no run time that went by during a run is left without a
\* run when no run is in progress; and a tick processed, with no run in
\* progress, later than the misfire grace starts no run and is reported as
\* missed.
C20_CoalescedRunFollows ==
    [][/\ (instances' = 0) => (skipped' = 0)
       /\ (instances = 0 /\ due > 0 /\ late /\ due' = 0) =>
             (instances' = 0 /\ missed' = missed + 1)]_vars

\* C21: once stop() has been called (by the signal handler or directly) the
\* scheduler starts no run, and stop() returns with the scheduler stopped
\* whether or not the run in progress ever completes; the lifecycle moves
\* only stopped -> running -> shutting_down -> stopped.
C21_StopReturnsInBoundedTime ==
    /\ [][/\ (ap_state = "shutting_down") => (instances' <= instances)
          /\ <<ap_state, ap_state'>> \in
                {<<"stopped", "stopped">>, <<"stopped", "running">>,
                 <<"running", "running">>, <<"running", "shutting_down">>,
                 <<"shutting_down", "shutting_down">>,
                 <<"shutting_down", "stopped">>}]_vars
    /\ (ap_state = "shutting_down") ~> (ap_state = "stopped")

(***************************************************************************)
(* BackupProcessor.run_backup: the list of databases, the wait for the     *)
(* two connections, the creation of the destination databases, the         *)
(* databases one after the other.                                          *)
(***************************************************************************)

MaxDatabases == 2
MaxProbeFailures == 2

\* a database name: base is the name as configured or listed, affixes the
\* number of times the configured prefix and suffix were put around it
DbNames == [base : 1..MaxDatabases, affixes : {0}]

\* destination_name: str = None
None == [base |-> 0, affixes |-> 0]

\* config.get_final_database_name: f"{prefix}{base_name}{suffix}" with
\* base_name = destination_name or source_name
get_final_database_name(source_name, destination_name) ==
    LET base_name == IF destination_name # None THEN destination_name
                     ELSE source_name
    IN  [base |-> base_name.base, affixes |-> base_name.affixes + 1]

\* the entries of config_data["source"]["databases"]
DbPairs == [name : DbNames, destination : DbNames \cup {None}]

\* the name of the destination database in _prepare_destination_databases
\* and in _backup_database
dest_name(db_config) ==
    get_final_database_name(db_config.name, db_config.destination)

\* the requests that list databases, measurements, fields or tags
Enumerations == {"get_databases", "get_measurements", "get_field_keys",
                 "get_tag_keys"}

call(to, what, db, ok) == [to |-> to, call |-> what, db |-> db, ok |-> ok]

\* run_backup is called on a processor whose configuration lists up to
\* MaxDatabases pairs, or none
RunInit ==
    /\ OrchIdle
    /\ gtr = NoCall
    /\ RetryIdle
    /\ FieldIdle
    /\ PoolIdle
    /\ SchedIdle
    /\ APIdle
    /\ IncIdle
    /\ WriteIdle
    /\ configured \in UNION {[1..n -> DbPairs] : n \in 0..MaxDatabases}
    /\ databases = <<>>
    /\ run_pc = "databases"
    /\ dbi = 0
    /\ probe_failures = 0
    /\ sent = <<>>
    /\ run_result = "none"

\* _get_databases_to_process, databases configured
GetDatabasesConfigured ==
    /\ run_pc = "databases"
    /\ configured # <<>>
    /\ databases' = configured
    /\ run_pc' = "probe_source"
    /\ UNCHANGED <<configured, dbi, probe_failures, sent, run_result,
                   orchvars, chunkvars, retryvars, fieldvars, poolvars,
                   schedvars, apvars, incvars, writevars>>

\* _get_databases_to_process, no database configured: the source is asked
\* for its databases (an empty list if the request fails)
GetDatabasesFromSource(found) ==
    /\ run_pc = "databases"
    /\ configured = <<>>
    /\ sent' = Append(sent, call("source", "get_databases", None, TRUE))
    /\ databases' = [k \in 1..Len(found) |->
                       [name |-> found[k],
                        destination |->
                            get_final_database_name(found[k], None)]]
    /\ run_pc' = "probe_source"
    /\ UNCHANGED <<configured, dbi, probe_failures, run_result, orchvars,
                   chunkvars, retryvars, fieldvars, poolvars, schedvars,
                   apvars, incvars, writevars>>

\* _wait_for_connections: source_client.test_connection(); on False,
\* time.sleep(retry_delay) and continue
ProbeSource(ok) ==
    /\ run_pc = "probe_source"
    /\ ok \/ probe_failures < MaxProbeFailures
    /\ sent' = Append(sent, call("source", "test_connection", None, ok))
    /\ run_pc' = IF ok THEN "probe_dest" ELSE "sleep"
    /\ probe_failures' = IF ok THEN probe_failures ELSE probe_failures + 1
    /\ UNCHANGED <<configured, databases, dbi, run_result, orchvars,
                   chunkvars, retryvars, fieldvars, poolvars, schedvars,
                   apvars, incvars, writevars>>

\* _wait_for_connections: dest_client.test_connection(); on False,
\* time.sleep(retry_delay) and continue, on True return True
ProbeDest(ok) ==
    /\ run_pc = "probe_dest"
    /\ ok \/ probe_failures < MaxProbeFailures
    /\ sent' = Append(sent, call("dest", "test_connection", None, ok))
    /\ run_pc' = IF ok THEN "prepare" ELSE "sleep"
    /\ dbi' = IF ok THEN 1 ELSE dbi
    /\ probe_failures' = IF ok THEN probe_failures ELSE probe_failures + 1
    /\ UNCHANGED <<configured, databases, run_result, orchvars, chunkvars,
                   retryvars, fieldvars, poolvars, schedvars, apvars, incvars, writevars>>

\* time.sleep(retry_delay) returns: the while True loop starts again with
\* the source
RetryDelayOver ==
    /\ run_pc = "sleep"
    /\ run_pc' = "probe_source"
    /\ UNCHANGED <<configured, databases, dbi, probe_failures, sent,
                   run_result, orchvars, chunkvars, retryvars, fieldvars,
                   poolvars, schedvars, apvars, incvars, writevars>>

\* the creation fails and the run goes on to the next pair all the same
CreateDatabase_ignored(ok) ==
    /\ run_pc = "prepare"
    /\ dbi <= Len(configured)
    /\ sent' = Append(sent, call("dest", "create_database",
                                 dest_name(configured[dbi]), ok))
    /\ dbi' = dbi + 1
    /\ UNCHANGED <<configured, databases, run_pc, probe_failures,
                   run_result, orchvars, chunkvars, retryvars, fieldvars,
                   poolvars, schedvars, apvars, incvars, writevars>>

\* _prepare_destination_databases, one configured pair:
\* dest_client.create_database(dest_name); on False it returns False,
\* run_backup raises and returns success False
CreateDatabase(ok) ==
    /\ run_pc = "prepare"
    /\ dbi <= Len(configured)
    /\ sent' = Append(sent, call("dest", "create_database",
                                 dest_name(configured[dbi]), ok))
    /\ dbi' = dbi + 1
    /\ run_pc' = IF ok THEN run_pc ELSE "done"
    /\ run_result' = IF ok THEN run_result ELSE "failure"
    /\ UNCHANGED <<configured, databases, probe_failures, orchvars,
                   chunkvars, retryvars, fieldvars, poolvars, schedvars,
                   apvars, incvars, writevars>>

\* _prepare_destination_databases returns True
PrepareDone ==
    /\ run_pc = "prepare"
    /\ dbi > Len(configured)
    /\ run_pc' = "process"
    /\ dbi' = 1
    /\ UNCHANGED <<configured, databases, probe_failures, sent, run_result,
                   orchvars, chunkvars, retryvars, fieldvars, poolvars,
                   schedvars, apvars, incvars, writevars>>

\* the database _is_field_obsolete reads the last timestamp of a field
\* from: dest_db = self.config.get_final_database_name(database), where
\* database is the source_db its callers hand it
obsolete_check_db(db_config) ==
    get_final_database_name(db_config.name, None)

\* _backup_database for one pair: the measurements of the source database
\* are listed, _is_field_obsolete reads the last timestamp of a field in
\* the destination, and data is written to the destination database
BackupDatabase ==
    /\ run_pc = "process"
    /\ dbi <= Len(databases)
    /\ sent' = sent \o
          <<call("source", "get_measurements", databases[dbi].name, TRUE),
            call("dest", "get_field_last_timestamp",
                 obsolete_check_db(databases[dbi]), TRUE),
            call("dest", "write_data", dest_name(databases[dbi]), TRUE)>>
    /\ dbi' = dbi + 1
    /\ UNCHANGED <<configured, databases, run_pc, probe_failures,
                   run_result, orchvars, chunkvars, retryvars, fieldvars,
                   poolvars, schedvars, apvars, incvars, writevars>>

\* the loop over the databases is over: return success True
RunSucceeds ==
    /\ run_pc = "process"
    /\ dbi > Len(databases)
    /\ run_pc' = "done"
    /\ run_result' = "success"
    /\ UNCHANGED <<configured, databases, dbi, probe_failures, sent,
                   orchvars, chunkvars, retryvars, fieldvars, poolvars,
                   schedvars, apvars, incvars, writevars>>

RunNext ==
    \/ GetDatabasesConfigured
    \/ \E n \in 0..MaxDatabases : \E found \in [1..n -> DbNames] :
          GetDatabasesFromSource(found)
    \/ \E ok \in BOOLEAN : ProbeSource(ok)
    \/ \E ok \in BOOLEAN : ProbeDest(ok)
    \/ RetryDelayOver
    \/ \E ok \in BOOLEAN : CreateDatabase(ok)
    \/ PrepareDone
    \/ BackupDatabase
    \/ RunSucceeds

RunSpec == RunInit /\ [][RunNext]_vars

\* a successful probe of the endpoint is among the first n calls
probed(to, n) ==
    \E k \in 1..n : sent[k] = call(to, "test_connection", None, TRUE)

\* C22: no request that lists databases, measurements, fields or tags is
\* sent before a probe of the source and a probe of the destination have
\* succeeded; a failed probe is followed by the sleep and a new probe, and
\* no run reports failure for a probe that failed.
C22_NoEnumerationBeforeProbes ==
    /\ \A k \in 1..Len(sent) :
          sent[k].call \in Enumerations =>
             probed("source", k - 1) /\ probed("dest", k - 1)
    /\ (run_pc = "sleep") =>
          (sent # <<>> /\ ~sent[Len(sent)].ok /\ run_result = "none")
    /\ (run_result = "failure") => sent[Len(sent)].call = "create_database"

\* C23: data is written to a destination database of a configured pair
\* only after the creation of that database was requested, every creation
\* is requested before the first database is processed, and a creation that
\* fails ends the run with success False and no database processed.
C23_CreatedBeforeWritten ==
    /\ \A k \in 1..Len(sent) :
          (/\ sent[k].call = "write_data"
           /\ \E n \in 1..Len(configured) :
                 dest_name(configured[n]) = sent[k].db) =>
             \E j \in 1..(k - 1) :
                 /\ sent[j].call = "create_database"
                 /\ sent[j].db = sent[k].db
                 /\ sent[j].ok
    /\ (\E k \in 1..Len(sent) :
            sent[k].call = "create_database" /\ ~sent[k].ok) =>
          /\ run_result = "failure"
          /\ \A k \in 1..Len(sent) :
                sent[k].call \notin {"get_measurements", "write_data"}

\* two configured pairs processed and the run over
C23_Witness ==
    /\ Len(configured) = 2
    /\ run_result = "success"
    /\ \E k \in 1..Len(sent) : sent[k].call = "write_data"

\* C24: a write that the destination answers with a status other than 204
\* makes write_data raise an exception.
C24_WriteDataRaises ==
    (/\ method = "write"
     /\ rpc = "raised"
     /\ requests[Len(requests)] \in {"http_4xx", "http_5xx"}) =>
        write_data(outcome) = [raises |-> outcome]

\* C25: test_connection returns True when the probe is answered with
\* status 200 and a JSON body without an "error" key, the empty object
\* included, and False when every attempt failed at transport level.
C25_TestConnection ==
    method = "query" =>
       /\ rpc = "returned" =>
             test_connection(outcome, requests[Len(requests)]).returns
       /\ (/\ rpc = "raised"
           /\ \A k \in 1..Len(requests) :
                 requests[k] \in {"io_error", "timeout"}) =>
             ~test_connection(outcome, requests[Len(requests)]).returns

\* C26: a field is submitted to the pool once and never again, a chunk of a
\* field is queried once, in the order of the chunks and while the field's
\* call runs, a result is appended once per field and only when the field's
\* call has returned, and when a measurement is left the processed, the
\* skipped and the failed fields of the summary add up to the fields
\* submitted.
C26_OneResultPerSubmittedField ==
    [][/\ \A mm \in Measurements, f \in Fields :
             /\ (fstate'[mm][f] = "queued" /\ fstate[mm][f] # "queued") =>
                   (fstate[mm][f] = "none" /\ ppc = "measurement")
             /\ fchunk'[mm][f] # fchunk[mm][f] =>
                   /\ fchunk'[mm][f] = fchunk[mm][f] + 1
                   /\ fstate[mm][f] = "running"
                   /\ mm = measurement
       /\ (ppc = "pool" /\ field_results' # field_results) =>
             \E f \in Fields \ field_results :
                 /\ field_results' = field_results \cup {f}
                 /\ fstate[measurement][f] \in {"done", "failed", "skipped"}
       /\ measurement' # measurement =>
             /\ field_results = Fields
             /\ Cardinality(processed_fields(measurement))
                   + Cardinality(skipped_fields(measurement))
                   + Cardinality(failed_fields(measurement)) = NFields]_vars

\* the last measurement is left with a processed, a skipped and a failed
\* field among its results or those of the measurement before
C26_Witness ==
    /\ ppc = "finished"
    /\ \E mm \in Measurements, f \in Fields : fstate[mm][f] = "skipped"
    /\ \E mm \in Measurements, f \in Fields : fstate[mm][f] = "failed"
    /\ \E mm \in Measurements, f \in Fields : fstate[mm][f] = "done"

(***************************************************************************)
(* BackupProcessor._backup_database, incremental mode: the start of a      *)
(* measurement and the start of the first chunk of each of its fields.     *)
(* Datetimes are counted in ticks of one microsecond from 1; the           *)
(* destination and the source hold nothing later than MaxStamp.            *)
(***************************************************************************)

MaxStamp == 3

\* timedelta(days=30), in ticks
ThirtyDays == 2

\* end_time = datetime.now(), later than every timestamp stored
inc_end_time == MaxStamp + 1

Stamps == 1..MaxStamp

RECURSIVE latest_of(_, _)
\* the loop of _get_incremental_start_time over the fields 1..n:
\* latest_timestamp is replaced by every later field timestamp
latest_of(ts, n) ==
    IF n = 0 THEN NoTime
    ELSE LET latest_timestamp == latest_of(ts, n - 1)
         IN  IF ts[n] # NoTime
                /\ (latest_timestamp = NoTime \/ ts[n] > latest_timestamp)
             THEN ts[n]
             ELSE latest_timestamp

\* _get_incremental_start_time: latest_timestamp + timedelta(microseconds=1),
\* or None
get_incremental_start_time(ts) ==
    IF latest_of(ts, NFields) # NoTime
    THEN latest_of(ts, NFields) + microsecond
    ELSE NoTime

\* the start of a full backup of the measurement: first_time if first_time
\* else datetime.now() - timedelta(days=30)
full_backup_start(first) ==
    IF first # NoTime THEN first ELSE inc_end_time - ThirtyDays

\* a measurement of the source with its first timestamp, if it has data,
\* and the last timestamp of each of its fields in the destination, if any
IncInit ==
    /\ OrchIdle
    /\ gtr = NoCall
    /\ RetryIdle
    /\ FieldIdle
    /\ PoolIdle
    /\ SchedIdle
    /\ APIdle
    /\ RunIdle
    /\ WriteIdle
    /\ field_last \in [Fields -> Stamps \cup {NoTime}]
    /\ first_time \in Stamps \cup {NoTime}
    /\ \A f \in Fields :
          field_last[f] # NoTime =>
             (first_time # NoTime /\ first_time <= field_last[f])
    /\ measurement_start = NoTime
    /\ first_chunk = [f \in Fields |-> NoTime]
    /\ ipc = "start"
    /\ cutoff_time \in Stamps \cup {NoTime}
    /\ active_fields = {}
    /\ inc_results = [f \in Fields |-> "none"]

\* lines 881-915: measurement_start, and _backup_measurement if it is
\* earlier than end_time
MeasurementStart ==
    /\ ipc = "start"
    /\ measurement_start' =
          IF get_incremental_start_time(field_last) = NoTime
          THEN full_backup_start(first_time)
          ELSE get_incremental_start_time(field_last)
    /\ ipc' = IF measurement_start' < inc_end_time THEN "fields"
              ELSE "skipped"
    /\ UNCHANGED <<field_last, first_time, first_chunk, cutoff_time,
                   active_fields, inc_results, runvars, writevars, orchvars,
                   chunkvars, retryvars, fieldvars, poolvars, schedvars,
                   apvars>>

\* _is_field_obsolete: no threshold configured, False; else
\* last_timestamp and last_timestamp < cutoff_time
is_field_obsolete(f) ==
    /\ cutoff_time # NoTime
    /\ field_last[f] # NoTime
    /\ field_last[f] < cutoff_time

\* _backup_measurement, lines 579-589: the fields that are not obsolete
\* are the active fields; with none the method returns 0
FilterObsolete ==
    /\ ipc = "fields"
    /\ active_fields' = {f \in Fields : ~is_field_obsolete(f)}
    /\ ipc' = IF active_fields' = {} THEN "done" ELSE "pool"
    /\ UNCHANGED <<field_last, first_time, measurement_start, first_chunk,
                   cutoff_time, inc_results, runvars, writevars, orchvars, chunkvars,
                   retryvars, fieldvars, poolvars, schedvars, apvars>>

\* _backup_single_field, incremental: with a last timestamp the field
\* starts one microsecond after it, or is skipped (-1) if that is not
\* before end_time; with none it keeps the start_time it was given
FieldStartTime(f) ==
    /\ ipc = "pool"
    /\ f \in active_fields
    /\ first_chunk[f] = NoTime
    /\ inc_results' = [inc_results EXCEPT ![f] =
          IF field_last[f] # NoTime
             /\ field_last[f] + microsecond >= inc_end_time
          THEN "skipped:no_new_data"
          ELSE IF is_field_obsolete(f) THEN "skipped:obsolete"
          ELSE "submitted"]
    /\ first_chunk' = [first_chunk EXCEPT ![f] =
          IF field_last[f] # NoTime
          THEN IF field_last[f] + microsecond >= inc_end_time THEN -1
               ELSE field_last[f] + microsecond
          ELSE measurement_start]
    /\ UNCHANGED <<field_last, first_time, measurement_start, ipc,
                   cutoff_time, active_fields, runvars, writevars, orchvars, chunkvars,
                   retryvars, fieldvars, poolvars, schedvars, apvars>>

\* every future handed over by as_completed: _backup_measurement returns
MeasurementDone ==
    /\ ipc = "pool"
    /\ \A f \in active_fields : inc_results[f] # "none"
    /\ ipc' = "done"
    /\ UNCHANGED <<field_last, first_time, measurement_start, first_chunk,
                   cutoff_time, active_fields, inc_results, runvars, writevars,
                   orchvars, chunkvars, retryvars, fieldvars, poolvars,
                   schedvars, apvars>>

IncNext ==
    \/ MeasurementStart
    \/ FilterObsolete
    \/ \E f \in Fields : FieldStartTime(f)
    \/ MeasurementDone

IncSpec == IncInit /\ [][IncNext]_vars

\* the start of a field by itself: one unit after its last timestamp in
\* the destination, or the start of a full backup
own_start(f) ==
    IF field_last[f] # NoTime THEN field_last[f] + microsecond
    ELSE full_backup_start(first_time)

\* C27: the start time a measurement is processed from is the least of the
\* start times of its fields.
C27_MeasurementStartIsMinimum ==
    ipc \in {"fields", "skipped", "pool", "done"} =>
       /\ \E f \in Fields : measurement_start = own_start(f)
       /\ \A f \in Fields : measurement_start <= own_start(f)

\* C28: the first chunk of a field with no timestamp in the destination
\* starts at the first timestamp of the measurement in the source, or 30
\* days before now if the source has none.
C28_NoObservationFullBackup ==
    \A f \in Fields :
        (field_last[f] = NoTime /\ first_chunk[f] # NoTime) =>
            first_chunk[f] = full_backup_start(first_time)

\* C29: a field one of whose chunk queries failed is returned as failed,
\* not as a transfer that succeeded nor as a field skipped for want of data.
C29_QueryErrorFailsField ==
    (fpc = "returned" /\ fstats.query_error) => fresult = "failed"

\* C30: a field returns one of three statuses; one whose queries returned
\* no row is skipped with the reason no_data_in_range, or no_new_data when
\* its start is not before the end, or obsolete; a skipped field carries
\* one of the three reasons and has written nothing to the destination.
C30_OneStatusPerField ==
    fpc = "returned" =>
       /\ fresult \in {"ok", "skipped", "failed"}
       /\ fresult = "skipped" <=>
             fstats.reason \in {"no_new_data", "obsolete", "no_data_in_range"}
       /\ fresult = "skipped" => ~fstats.wrote
       /\ fstats.reason = "no_new_data" <=>
             (has_field_start /\ field_start_time >= field.end_time)
       /\ (~fstats.rows /\ ~fstats.query_error) => fresult = "skipped"

\* C36: the obsolescence check of a configured pair reads the last
\* timestamp of a field from the destination database the data of the pair
\* is written to.
C36_ObsolescenceReadsDestination ==
    \A k \in 1..Len(sent) :
        (configured # <<>> /\ sent[k].call = "get_field_last_timestamp") =>
            /\ k < Len(sent)
            /\ sent[k + 1].call = "write_data"
            /\ sent[k].db = sent[k + 1].db

\* C38: the destination database written to carries the prefix and the
\* suffix once, and its creation was requested before, for listed and for
\* discovered databases alike.
C38_WrittenNameCreatedOnce ==
    \A k \in 1..Len(sent) :
        sent[k].call = "write_data" =>
            /\ sent[k].db.affixes = 1
            /\ \E j \in 1..(k - 1) :
                  /\ sent[j].call = "create_database"
                  /\ sent[j].db = sent[k].db

\* C31: when a measurement has been processed, a field judged obsolete has
\* had no query of the source and no write, and its result says skipped
\* with the reason obsolete.
C31_ObsoleteFieldSkipped ==
    ipc = "done" =>
       \A f \in Fields :
           is_field_obsolete(f) =>
              /\ first_chunk[f] = NoTime
              /\ inc_results[f] = "skipped:obsolete"

(***************************************************************************)
(* InfluxDBClient.write_data: the records of one chunk of one field, cut   *)
(* into batches, each batch turned into lines and posted.  A record is     *)
(* known by what its values give once sorted into tags and fields: a       *)
(* string value is a tag (unless its key starts with "_"), a None is left  *)
(* out, anything else is a field.                                          *)
(***************************************************************************)

MaxRecords == 5

\* batch_size: int = 1000, counted here in units of 500 records
batch_size == 2

\* a record with a value that is a field, and one with tags only
RecordKinds == {"with_field", "tags_only"}

\* chunks(lst, chunk_size): the positions of chunk number b
chunks(n, chunk_size, b) ==
    {k \in 1..n : (b - 1) * chunk_size < k /\ k <= b * chunk_size}

\* the number of chunks of a list of n elements:
\* len(range(0, len(lst), chunk_size))
chunk_count(n, chunk_size) == (n + chunk_size - 1) \div chunk_size

RECURSIVE ascending(_)
\* the elements of a set of positions in their order
ascending(S) ==
    IF S = {} THEN <<>>
    ELSE LET least == CHOOSE k \in S : \A j \in S : k <= j
         IN  <<least>> \o ascending(S \ {least})

\* `if fields:` a line is built for the record, else nothing is done
lines_of(b) ==
    ascending({k \in chunks(Len(records), batch_size, b) :
                  records[k] = "with_field"})

WriteInit ==
    /\ OrchIdle
    /\ gtr = NoCall
    /\ RetryIdle
    /\ FieldIdle
    /\ PoolIdle
    /\ SchedIdle
    /\ APIdle
    /\ RunIdle
    /\ IncIdle
    /\ records \in UNION {[1..n -> RecordKinds] : n \in 0..MaxRecords}
    /\ batch = 1
    /\ posts = <<>>
    /\ wlog = <<>>
    /\ wd_result = "none"
    /\ records_transferred = 0

\* the batch has no line (`if lines:` is False): nothing is posted
BatchEmpty ==
    /\ wd_result = "none"
    /\ batch <= chunk_count(Len(records), batch_size)
    /\ lines_of(batch) = <<>>
    /\ batch' = batch + 1
    /\ UNCHANGED <<records, posts, wlog, wd_result, records_transferred, runvars, incvars,
                   orchvars, chunkvars, retryvars, fieldvars, poolvars,
                   schedvars, apvars>>

\* the failed batch is logged and the loop goes on with the next one
BatchPosted_goes_on(ok) ==
    /\ wd_result = "none"
    /\ batch <= chunk_count(Len(records), batch_size)
    /\ lines_of(batch) # <<>>
    /\ posts' = Append(posts, lines_of(batch))
    /\ wlog' = Append(wlog, IF ok THEN "debug" ELSE "error")
    /\ batch' = batch + 1
    /\ UNCHANGED <<records, wd_result, records_transferred, runvars, incvars, orchvars,
                   chunkvars, retryvars, fieldvars, poolvars, schedvars,
                   apvars>>

\* the lines of the batch are posted by _execute_write: it returns True
\* (logger.debug, next batch) or raises (`except Exception`: logger.error,
\* return False, and _backup_single_field returns the failed result with
\* the count it had)
BatchPosted(ok) ==
    /\ wd_result = "none"
    /\ batch <= chunk_count(Len(records), batch_size)
    /\ lines_of(batch) # <<>>
    /\ posts' = Append(posts, lines_of(batch))
    /\ wlog' = Append(wlog, IF ok THEN "debug" ELSE "error")
    /\ batch' = IF ok THEN batch + 1 ELSE batch
    /\ wd_result' = IF ok THEN wd_result ELSE "False"
    /\ UNCHANGED <<records, records_transferred, runvars, incvars, orchvars, chunkvars,
                   retryvars, fieldvars, poolvars, schedvars, apvars>>

\* `if not records: return True`, or the loop is over: return True; the
\* caller (_backup_single_field, which calls only `if records:`) then does
\* `if success: records_transferred += len(records)`
WriteReturns ==
    /\ wd_result = "none"
    /\ batch > chunk_count(Len(records), batch_size)
    /\ wd_result' = "True"
    /\ records_transferred' = records_transferred + Len(records)
    /\ UNCHANGED <<records, batch, posts, wlog, runvars, incvars, orchvars,
                   chunkvars, retryvars, fieldvars, poolvars, schedvars,
                   apvars>>

WriteNext ==
    \/ BatchEmpty
    \/ \E ok \in BOOLEAN : BatchPosted(ok)
    \/ WriteReturns

WriteSpec == WriteInit /\ [][WriteNext]_vars

\* the records whose lines were posted, request after request
posted_lines ==
    [k \in 1..Len(posts) |-> {posts[k][j] : j \in 1..Len(posts[k])}]

\* C32: a request carries at most batch_size lines; the requests carry the
\* records in the order of the rows, no record twice; after a request that
\* failed no request is made and the call returns False.
C32_BatchesInOrder ==
    /\ \A k \in 1..Len(posts) :
          /\ Len(posts[k]) <= batch_size
          /\ \A j \in 1..(Len(posts[k]) - 1) : posts[k][j] < posts[k][j + 1]
          /\ k < Len(posts) =>
                posts[k][Len(posts[k])] < posts[k + 1][1]
    /\ \A k \in 1..Len(wlog) :
          wlog[k] = "error" => (k = Len(wlog) /\ wd_result = "False")
    /\ wd_result = "True" =>
          /\ \A k \in 1..Len(wlog) : wlog[k] = "debug"
          /\ UNION {posted_lines[k] : k \in 1..Len(posts)} =
                {k \in 1..Len(records) : records[k] = "with_field"}

\* three requests made, the last one failed
C32_Witness ==
    /\ Len(posts) = 3
    /\ wd_result = "False"

\* C33: no line is posted for a record without a field, and when the call
\* has returned True a warning was logged for each record left out.
C33_DroppedWithWarning ==
    /\ \A k \in 1..Len(posts) : \A j \in 1..Len(posts[k]) :
          records[posts[k][j]] = "with_field"
    /\ wd_result = "True" =>
          Cardinality({k \in 1..Len(wlog) : wlog[k] = "warning"}) =
             Cardinality({k \in 1..Len(records) : records[k] = "tags_only"})

\* the records the destination took: the lines of the requests that
\* succeeded
accepted ==
    UNION {posted_lines[k] : k \in {j \in 1..Len(posts) : wlog[j] = "debug"}}

\* C39: once write_data has returned, the count of the field is the number
\* of records the destination accepted.
C39_CountIsAccepted ==
    wd_result # "none" => records_transferred = Cardinality(accepted)

\* C34: the step in which a run of the backup function raises leaves the
\* scheduler as it was (running if it was), and after it the next run time
\* the scheduler processes, with no run in progress and within the grace,
\* starts a run of the function.
C34_RaisingRunIsRunAgain ==
    [][/\ (instances' < instances /\ job_event' = "error") =>
             /\ ap_state' = ap_state
             /\ <<due, late>>' = <<due, late>>
       /\ (/\ job_event = "error"
           /\ ap_state = "running"
           /\ instances = 0
           /\ due > 0
           /\ ~late
           /\ due' = 0) => instances' = 1]_vars

\* a run raised, and the run of the next cron tick is in progress
C34_Witness ==
    /\ job_event = "error"
    /\ ap_state = "running"
    /\ instances = 1
    /\ ticks = 2

\* C35: once the shutdown event is set, the worker that is in the chunks
\* of a field queries at most the chunk it is at and no further one.
C35_NoChunkAfterShutdown ==
    shutdown_event => Len(queried) <= fstats.at_shutdown + 1

\* C37: a worker inside processor.run() is one the orchestrator counts as
\* long-running exactly when the processor takes the way of the cron
\* scheduler.
C37_ClassificationAgrees ==
    \A j \in Jobs :
        wpc[j] = "running" =>
            (is_long_running_process(j) <=> installs_scheduler(j))

\* C40: the orchestrator calls terminate() or kill() on a long-running
\* worker only when a signal has set the shutdown event before; so after a
\* normal return of run() the long-running workers alive stay alive to the
\* exit of the program.
C40_LongRunningLeftAlive ==
    [][\A j \in Jobs :
          (/\ is_long_running_process(j)
           /\ j \in (terminated' \ terminated) \cup (killed' \ killed))
             => shutdown_event]_vars

====
